---------------------------- MODULE Spec2Model ----------------------------
(***************************************************************************)
(* Model of the colour-correction core (lib/color.js, lib/transfer.js)     *)
(* and of the batch pipeline of the application component                  *)
(* (runLocalCorrection, applyRecovery, handleProcess).                     *)
(*                                                                         *)
(* Numbers.  The program computes in IEEE doubles; the model computes in   *)
(* fixed point:                                                            *)
(*   - linear light, XYZ and the pivot values fx, fy, fz in units of       *)
(*     1/LinScale;                                                         *)
(*   - Lab components, their sums, means and variances in units of         *)
(*     1/LabScale;                                                         *)
(*   - standard deviations in units of 1/StdScale, so that the floor       *)
(*     1e-6 of computeLabStats is exactly one unit;                        *)
(*   - blend amounts (strength) in units of 1/StrScale.                    *)
(*   - scores of the confidence in units of 1/ScoreScale.                  *)
(* Products are formed exactly by MulDivQR and rounded to nearest.  The    *)
(* accumulators of computeLabStats are rounded to FloatBits significant    *)
(* bits after every operation, as doubles are to 53.  NaN is a value of    *)
(* its own that every arithmetic step propagates, as in the program.       *)
(* Math.pow is tabulated (SrgbToLinearTab, LinearToSrgbTab).               *)
(*                                                                         *)
(* Specifications.  Spec runs handleProcess over a list of images, step by *)
(* step; SpecCore makes one call of computeLabStats, applyReinhardTransfer *)
(* or applyLabShift; SpecConv takes one RGB triple through rgbToLab and    *)
(* labToRgb; SpecConf runs the handlers that change what the confidence is *)
(* computed from; SpecUi runs the image list, the reference selection and  *)
(* the mode switches with their effects; SpecPoll runs handleProcess in    *)
(* asyncMode with pollJob; SpecSpot runs the pick on the sample preview    *)
(* and the computation of the spot shift; SpecLive is Spec with fairness.  *)
(* They share the variables; each holds the variables of the others at     *)
(* their idle values.                                                      *)
(***************************************************************************)
EXTENDS Integers, Sequences, FiniteSets, TLC

-----------------------------------------------------------------------------
(* Number representation *)

LinScale == 1000000
LabScale == 10000
StdScale == 1000000
StrScale == 100

\* The value of 0/0 (color.js:102) and of parseFloat('') (part_002:1920).
NaN == 2000000000

\* Magnitude at which a quotient saturates; it lies far outside the range
\* clampLab accepts, so a saturated value is clamped like the exact one.
Sat == 100000000

IsNaN(x) == x = NaN

Abs(x) == IF x < 0 THEN -x ELSE x

Sgn(x) == IF x < 0 THEN -1 ELSE 1

\* <<quotient, remainder>> of a*b by d for a, b >= 0 and 0 < d <= 10^8,
\* formed three bits of b at a time so that no intermediate value leaves
\* 32 bits; the quotient saturates at Sat.
MulDivQR[a \in Nat, b \in Nat, d \in Nat] ==
  IF b = 0 THEN <<0, 0>>
  ELSE LET h == MulDivQR[a, b \div 8, d]
           t == 8 * h[2] + (b % 8) * (a % d)
           q == 8 * h[1] + (b % 8) * (a \div d) + (t \div d)
       IN  <<IF q > Sat THEN Sat ELSE q, t % d>>

\* The quotient of <<quotient, remainder>> by d, rounded to nearest.
Rounded(qr, d) == IF 2 * qr[2] >= d THEN qr[1] + 1 ELSE qr[1]

Max(x, y) == IF x > y THEN x ELSE y

Min(x, y) == IF x < y THEN x ELSE y

\* a*b/d rounded to nearest, for signed a and b and d > 0.
MulDiv(a, b, d) ==
  Sgn(a) * Sgn(b)
    * Rounded(MulDivQR[Max(Abs(a), Abs(b)), Min(Abs(a), Abs(b)), d], d)

\* a/d rounded to nearest (halves upwards, as Math.round), d > 0.
RDiv(a, d) == (2 * a + d) \div (2 * d)

\* f^3 in units of 1/LinScale.
Cube(f) == MulDiv(MulDiv(f, f, LinScale), f, LinScale)

\* One step f <- (2f + value / f^2) / 3 of Newton's iteration.
NewtonStep(value, f) ==
  (2 * f + MulDiv(value, LinScale, MulDiv(f, f, LinScale))) \div 3

\* Math.cbrt for a value > 0 in units of 1/LinScale, by Newton's iteration
\* from a start above the root; the iteration descends and stops at the
\* first step that does not decrease f.
CbrtNewton[value \in Nat, f \in Nat] ==
  LET better == NewtonStep(value, f)
  IN  IF better >= f THEN f ELSE CbrtNewton[value, better]

Cbrt(value) == CbrtNewton[value, 2 * LinScale]

\* Math.sqrt of a variance in units of 1/LabScale, in units of 1/StdScale:
\* the largest s with s^2 <= variance.
NotAbove(qr, var) == qr[1] < var \/ (qr[1] = var /\ qr[2] = 0)

SqrtBisect[var \in Nat, lo \in Nat, hi \in Nat] ==
  IF hi - lo <= 1 THEN lo
  ELSE LET mid == (lo + hi) \div 2
       IN  IF NotAbove(MulDivQR[mid, mid, (StdScale \div LabScale) * StdScale], var)
           THEN SqrtBisect[var, mid, hi]
           ELSE SqrtBisect[var, lo, mid]

Sqrt(var) == IF IsNaN(var) THEN NaN ELSE SqrtBisect[var, 0, 100 * StdScale]

-----------------------------------------------------------------------------
(* lib/color.js *)

\* D65 white point, in units of 1/LinScale.
D65x == 950470
D65y == 1000000
D65z == 1088830

\* 0.008856, 16/116 in units of 1/LinScale; 7.787 in thousandths.
PivotEps == 8856
PivotOffset == 137931
PivotSlope == 7787

\* Matrix coefficients are written in units of 1/MatScale.
MatScale == 10000000

\* SrgbToLinearTab[c + 1] = srgbToLinear(c / 255) in units of 1/LinScale.
SrgbToLinearTab ==
  <<0, 304, 607, 911, 1214, 1518, 1821, 2125,
    2428, 2732, 3035, 3347, 3677, 4025, 4391, 4777,
    5182, 5605, 6049, 6512, 6995, 7499, 8023, 8568,
    9134, 9721, 10330, 10960, 11612, 12286, 12983, 13702,
    14444, 15209, 15996, 16807, 17642, 18500, 19382, 20289,
    21219, 22174, 23153, 24158, 25187, 26241, 27321, 28426,
    29557, 30713, 31896, 33105, 34340, 35601, 36889, 38204,
    39546, 40915, 42311, 43735, 45186, 46665, 48172, 49707,
    51269, 52861, 54480, 56128, 57805, 59511, 61246, 63010,
    64803, 66626, 68478, 70360, 72272, 74214, 76185, 78187,
    80220, 82283, 84376, 86500, 88656, 90842, 93059, 95307,
    97587, 99899, 102242, 104616, 107023, 109462, 111932, 114435,
    116971, 119538, 122139, 124772, 127438, 130136, 132868, 135633,
    138432, 141263, 144128, 147027, 149960, 152926, 155926, 158961,
    162029, 165132, 168269, 171441, 174647, 177888, 181164, 184475,
    187821, 191202, 194618, 198069, 201556, 205079, 208637, 212231,
    215861, 219526, 223228, 226966, 230740, 234551, 238398, 242281,
    246201, 250158, 254152, 258183, 262251, 266356, 270498, 274677,
    278894, 283149, 287441, 291771, 296138, 300544, 304987, 309469,
    313989, 318547, 323143, 327778, 332452, 337164, 341914, 346704,
    351533, 356400, 361307, 366253, 371238, 376262, 381326, 386429,
    391572, 396755, 401978, 407240, 412543, 417885, 423268, 428690,
    434154, 439657, 445201, 450786, 456411, 462077, 467784, 473531,
    479320, 485150, 491021, 496933, 502886, 508881, 514918, 520996,
    527115, 533276, 539479, 545724, 552011, 558340, 564712, 571125,
    577580, 584078, 590619, 597202, 603827, 610496, 617207, 623960,
    630757, 637597, 644480, 651406, 658375, 665387, 672443, 679542,
    686685, 693872, 701102, 708376, 715694, 723055, 730461, 737910,
    745404, 752942, 760525, 768151, 775822, 783538, 791298, 799103,
    806952, 814847, 822786, 830770, 838799, 846873, 854993, 863157,
    871367, 879622, 887923, 896269, 904661, 913099, 921582, 930111,
    938686, 947307, 955973, 964686, 973445, 982251, 991102, 1000000>>

\* LinearToSrgbTab[k] is the least value, in units of 1/LinScale, with
\* Math.round(linearToSrgb(value) * 255) >= k, for k in 1..255.
LinearToSrgbTab ==
  <<152, 456, 759, 1063, 1366, 1670, 1973, 2277,
    2580, 2884, 3189, 3510, 3849, 4206, 4582, 4977,
    5392, 5825, 6278, 6752, 7245, 7759, 8294, 8849,
    9425, 10023, 10643, 11284, 11947, 12632, 13340, 14071,
    14824, 15600, 16399, 17222, 18069, 18939, 19833, 20751,
    21694, 22661, 23653, 24670, 25711, 26778, 27871, 28989,
    30132, 31302, 32498, 33719, 34968, 36243, 37544, 38872,
    40228, 41610, 43020, 44458, 45923, 47415, 48936, 50485,
    52062, 53667, 55301, 56964, 58655, 60376, 62125, 63903,
    65711, 67549, 69416, 71313, 73239, 75196, 77183, 79200,
    81248, 83326, 85435, 87575, 89745, 91947, 94180, 96444,
    98740, 101067, 103426, 105816, 108239, 110694, 113180, 115699,
    118251, 120835, 123452, 126101, 128783, 131499, 134247, 137029,
    139844, 142692, 145574, 148490, 151439, 154423, 157440, 160491,
    163577, 166697, 169851, 173040, 176264, 179522, 182816, 186144,
    189507, 192906, 196340, 199809, 203314, 206854, 210430, 214042,
    217689, 221373, 225093, 228849, 232641, 236470, 240335, 244237,
    248176, 252151, 256163, 260213, 264299, 268423, 272583, 276782,
    281017, 285291, 289602, 293950, 298337, 302761, 307224, 311725,
    316263, 320841, 325456, 330110, 334803, 339535, 344305, 349114,
    353962, 358849, 363775, 368741, 373745, 378790, 383873, 388996,
    394159, 399362, 404605, 409887, 415209, 420572, 425975, 431418,
    436901, 442425, 447989, 453594, 459239, 464926, 470653, 476421,
    482230, 488081, 493972, 499905, 505879, 511895, 517952, 524051,
    530191, 536373, 542597, 548863, 555171, 561521, 567913, 574348,
    580825, 587344, 593905, 600510, 607157, 613846, 620579, 627354,
    634172, 641033, 647938, 654885, 661876, 668910, 675988, 683109,
    690274, 697482, 704734, 712030, 719369, 726753, 734181, 741652,
    749168, 756728, 764333, 771982, 779675, 787413, 795195, 803022,
    810894, 818811, 826773, 834779, 842831, 850928, 859070, 867257,
    875490, 883768, 892091, 900460, 908875, 917335, 925841, 934393,
    942991, 951635, 960325, 969060, 977843, 986671, 995546>>

clamp(value, min, max) ==
  IF IsNaN(value) THEN NaN ELSE Min(Max(value, min), max)

\* srgbToLinear(c / 255) for a byte c.
srgbToLinear(c) == SrgbToLinearTab[c + 1]

\* Math.round(linearToSrgb(value) * 255), bounded to 0..255: the number of
\* bytes k >= 1 whose threshold LinearToSrgbTab[k] is at most value.
RECURSIVE ByteSearch(_, _, _)
ByteSearch(value, lo, hi) ==
  IF lo = hi THEN lo
  ELSE LET mid == (lo + hi + 1) \div 2
       IN  IF LinearToSrgbTab[mid] <= value THEN ByteSearch(value, mid, hi)
           ELSE ByteSearch(value, lo, mid - 1)

linearToSrgb(value) == ByteSearch(value, 0, 255)

labPivot(value) ==
  IF value > PivotEps THEN Cbrt(value)
  ELSE MulDiv(value, PivotSlope, 1000) + PivotOffset

\* The inverse pivot that takes the cube whatever its size.
labPivotInvCubeOnly(value) == Cube(value)

\* cube > 0.008856 ? cube : (value - 16 / 116) / 7.787
PivotInvOf(value, cube) ==
  IF cube > PivotEps THEN cube
  ELSE MulDiv(value - PivotOffset, 1000, PivotSlope)

labPivotInv(value) == PivotInvOf(value, Cube(value))

Lab(L, a, b) == [L |-> L, a |-> a, b |-> b]

\* L = 116 fy - 16, a = 500 (fx - fy), b = 200 (fy - fz)
PivotToLab(fx, fy, fz) ==
  Lab(RDiv(116 * fy, LinScale \div LabScale) - 16 * LabScale,
      RDiv(500 * (fx - fy), LinScale \div LabScale),
      RDiv(200 * (fy - fz), LinScale \div LabScale))

XyzToLab(x, y, z) ==
  PivotToLab(labPivot(MulDiv(x, LinScale, D65x)),
             labPivot(MulDiv(y, LinScale, D65y)),
             labPivot(MulDiv(z, LinScale, D65z)))

LinearToLab(rn, gn, bn) ==
  XyzToLab(MulDiv(rn, 4124564, MatScale) + MulDiv(gn, 3575761, MatScale)
             + MulDiv(bn, 1804375, MatScale),
           MulDiv(rn, 2126729, MatScale) + MulDiv(gn, 7151522, MatScale)
             + MulDiv(bn, 721750, MatScale),
           MulDiv(rn, 193339, MatScale) + MulDiv(gn, 1191920, MatScale)
             + MulDiv(bn, 9503041, MatScale))

rgbToLab(r, g, b) ==
  LinearToLab(srgbToLinear(r), srgbToLinear(g), srgbToLinear(b))

Rgb(r, g, b) == [r |-> r, g |-> g, b |-> b]

XyzToRgb(x, y, z) ==
  Rgb(clamp(linearToSrgb(MulDiv(x, 32404542, MatScale)
              + MulDiv(y, -15371385, MatScale) + MulDiv(z, -4985314, MatScale)),
            0, 255),
      clamp(linearToSrgb(MulDiv(x, -9692660, MatScale)
              + MulDiv(y, 18760108, MatScale) + MulDiv(z, 415560, MatScale)),
            0, 255),
      clamp(linearToSrgb(MulDiv(x, 556434, MatScale)
              + MulDiv(y, -2040259, MatScale) + MulDiv(z, 10572252, MatScale)),
            0, 255))

PivotToRgb(fx, fy, fz) ==
  XyzToRgb(MulDiv(labPivotInv(fx), D65x, LinScale),
           MulDiv(labPivotInv(fy), D65y, LinScale),
           MulDiv(labPivotInv(fz), D65z, LinScale))

\* fx = a / 500 + fy, fz = fy - b / 200
FyToRgb(fy, a, b) ==
  PivotToRgb(RDiv(a * (LinScale \div LabScale), 500) + fy, fy,
             fy - RDiv(b * (LinScale \div LabScale), 200))

\* A NaN component makes fx, fy or fz NaN, and with it x, y, z and r, g, b.
labToRgb(L, a, b) ==
  IF IsNaN(L) \/ IsNaN(a) \/ IsNaN(b) THEN Rgb(NaN, NaN, NaN)
  ELSE FyToRgb(RDiv((L + 16 * LabScale) * (LinScale \div LabScale), 116), a, b)

\* A pixel buffer (imageData.data) is a sequence of pixels <<r, g, b, alpha>>.
\* The pixels computeLabStats visits: i = 0, stride, 2 * stride, ... bytes.
SampledPixels(data, sampleStep) ==
  {i \in 1..Len(data) : (i - 1) % Max(1, sampleStep) = 0}

\* The sums, squares, means and variances of computeLabStats are doubles,
\* which keep 53 significant bits; the model keeps FloatBits significant bits
\* of them, rounding each result to the nearest such number, ties to even.
FloatBits == 24

Pow2[n \in Nat] == IF n = 0 THEN 1 ELSE 2 * Pow2[n - 1]

\* The distance of the numbers of FloatBits significant bits around x.
GridOf[x \in Nat] == IF x < Pow2[FloatBits] THEN 1 ELSE 2 * GridOf[x \div 2]

RoundToGrid(x, g) ==
  g * (IF 2 * (x % g) > g \/ (2 * (x % g) = g /\ (x \div g) % 2 = 1)
       THEN (x \div g) + 1
       ELSE x \div g)

\* The result of an operation on doubles, rounded.
Fl(x) == IF IsNaN(x) THEN NaN ELSE Sgn(x) * RoundToGrid(Abs(x), GridOf[Abs(x)])

\* sum += f[i], in the order of the loop.
\* Fl as a function, whose argument is evaluated before it is applied.
FlAt[x \in Int] == Fl(x)

SumUpTo(f, idx, last) ==
  LET sum[n \in 0..last] ==
        IF n = 0 THEN 0
        ELSE IF n \in idx THEN FlAt[sum[n - 1] + f[n]]
        ELSE sum[n - 1]
  IN  sum[last]

SumOver(f, idx) ==
  IF idx = {} THEN 0
  ELSE SumUpTo(f, idx, CHOOSE j \in idx : \A k \in idx : k <= j)

\* value * value
Square(value) == Fl(MulDiv(value, value, LabScale))

\* sum / count; 0 / 0 is NaN.
Mean(sum, count) == IF count = 0 THEN NaN ELSE Fl(RDiv(sum, count))

\* Math.max(0, sumSq / count - mean * mean); NaN stays NaN.
Variance(sumSq, count, mean) ==
  IF count = 0 \/ IsNaN(mean) THEN NaN
  ELSE Max(0, Fl(Fl(RDiv(sumSq, count)) - Square(mean)))

\* 1e-6 in units of 1/StdScale.
StdFloor == 1

\* x || 1e-6: 0 and NaN are falsy.
OrFloor(root) == IF IsNaN(root) \/ root = 0 THEN StdFloor ELSE root

\* A standard deviation without the floor.
StdOfUnfloored(variance) == Sqrt(variance)

\* Math.sqrt(variance) || 1e-6
StdOf(variance) == OrFloor(Sqrt(variance))

Stats(mean, std) == [mean |-> mean, std |-> std]

StatsOfMeans(count, meanL, meanA, meanB, sumL2, sumA2, sumB2) ==
  Stats(Lab(meanL, meanA, meanB),
        Lab(StdOf(Variance(sumL2, count, meanL)),
            StdOf(Variance(sumA2, count, meanA)),
            StdOf(Variance(sumB2, count, meanB))))

StatsOfSums(count, sumL, sumA, sumB, sumL2, sumA2, sumB2) ==
  StatsOfMeans(count, Mean(sumL, count), Mean(sumA, count), Mean(sumB, count),
               sumL2, sumA2, sumB2)

\* The sums of the loop over the Lab values of the sampled pixels.
StatsOfLabs(lab, idx) ==
  StatsOfSums(Cardinality(idx),
              SumOver([i \in idx |-> lab[i].L], idx),
              SumOver([i \in idx |-> lab[i].a], idx),
              SumOver([i \in idx |-> lab[i].b], idx),
              SumOver([i \in idx |-> Square(lab[i].L)], idx),
              SumOver([i \in idx |-> Square(lab[i].a)], idx),
              SumOver([i \in idx |-> Square(lab[i].b)], idx))

LabsOf(data, idx) ==
  [i \in idx |-> rgbToLab(data[i][1], data[i][2], data[i][3])]

computeLabStats(data, sampleStep) ==
  StatsOfLabs(LabsOf(data, SampledPixels(data, sampleStep)),
              SampledPixels(data, sampleStep))

clampLab(lab) ==
  Lab(clamp(lab.L, 0, 100 * LabScale),
      clamp(lab.a, -128 * LabScale, 127 * LabScale),
      clamp(lab.b, -128 * LabScale, 127 * LabScale))

\* Math.round(base + (target - base) * amount), amount in units of 1/StrScale.
blend(base, target, amount) ==
  IF IsNaN(target) THEN NaN
  ELSE RDiv(base * StrScale + (target - base) * amount, StrScale)

-----------------------------------------------------------------------------
(* lib/transfer.js *)

\* null / undefined.
Null == [null |-> TRUE]

IsNull(x) == DOMAIN x = {"null"}

\* Arithmetic on doubles that may be NaN.
Add(x, y) == IF IsNaN(x) \/ IsNaN(y) THEN NaN ELSE x + y

Sub(x, y) == IF IsNaN(x) \/ IsNaN(y) THEN NaN ELSE x - y

\* Storing a number into a Uint8ClampedArray: NaN becomes 0, other values
\* are clamped to 0..255.
Uint8Clamped(value) == IF IsNaN(value) THEN 0 ELSE clamp(value, 0, 255)

Modes == {"full", "luminance", "chromatic"}

\* A transfer whose ratio of the deviations is inverted.
TransferChannelInverted(value, tgtMean, refStd, tgtStd, refMean) ==
  IF IsNaN(tgtMean) \/ IsNaN(refStd) \/ IsNaN(tgtStd) \/ IsNaN(refMean) THEN NaN
  ELSE MulDiv(value - tgtMean, tgtStd, refStd) + refMean

\* ((value - tgtMean) * (refStd / tgtStd)) + refMean
TransferChannel(value, tgtMean, refStd, tgtStd, refMean) ==
  IF IsNaN(tgtMean) \/ IsNaN(refStd) \/ IsNaN(tgtStd) \/ IsNaN(refMean) THEN NaN
  ELSE MulDiv(value - tgtMean, refStd, tgtStd) + refMean

\* A transfer that recomputes the three channels in every mode.
TransferLabOfAllChannels(lab, refMean, refStd, tgtMean, tgtStd, mode) ==
  clampLab(
    Lab(TransferChannel(lab.L, tgtMean.L, refStd.L, tgtStd.L, refMean.L),
        TransferChannel(lab.a, tgtMean.a, refStd.a, tgtStd.a, refMean.a),
        TransferChannel(lab.b, tgtMean.b, refStd.b, tgtStd.b, refMean.b)))

\* The Lab value the transfer hands to labToRgb for a pixel of Lab value lab.
TransferLabOf(lab, refMean, refStd, tgtMean, tgtStd, mode) ==
  clampLab(
    Lab(IF mode = "full" \/ mode = "luminance"
        THEN TransferChannel(lab.L, tgtMean.L, refStd.L, tgtStd.L, refMean.L)
        ELSE lab.L,
        IF mode = "full" \/ mode = "chromatic"
        THEN TransferChannel(lab.a, tgtMean.a, refStd.a, tgtStd.a, refMean.a)
        ELSE lab.a,
        IF mode = "full" \/ mode = "chromatic"
        THEN TransferChannel(lab.b, tgtMean.b, refStd.b, tgtStd.b, refMean.b)
        ELSE lab.b))

TransferLab(px, referenceStats, targetStats, mode) ==
  TransferLabOf(rgbToLab(px[1], px[2], px[3]), referenceStats.mean,
                referenceStats.std, targetStats.mean, targetStats.std, mode)

\* A write-back that stores an opaque alpha byte.
BlendPixelOpaque(px, rgb, strength) ==
  <<Uint8Clamped(blend(px[1], rgb.r, strength)),
    Uint8Clamped(blend(px[2], rgb.g, strength)),
    Uint8Clamped(blend(px[3], rgb.b, strength)),
    255>>

\* One pixel of the write-back loop: the three colour bytes are blended,
\* the alpha byte is not written.
BlendPixel(px, rgb, strength) ==
  <<Uint8Clamped(blend(px[1], rgb.r, strength)),
    Uint8Clamped(blend(px[2], rgb.g, strength)),
    Uint8Clamped(blend(px[3], rgb.b, strength)),
    px[4]>>

\* labToRgb of the clamped Lab value, blended into the pixel.
WritePixel(px, lab, strength) ==
  BlendPixel(px, labToRgb(lab.L, lab.a, lab.b), strength)

TransferPixel(px, referenceStats, targetStats, strength, mode) ==
  WritePixel(px, TransferLab(px, referenceStats, targetStats, mode), strength)

applyReinhardTransfer(data, referenceStats, targetStats, strength, mode) ==
  [i \in 1..Len(data) |->
     TransferPixel(data[i], referenceStats, targetStats, strength, mode)]

\* A missing component that counts as 1.
ComponentOrOne(shift, name) ==
  IF name \in DOMAIN shift THEN shift[name] ELSE LabScale

\* shift.X ?? 0
Component(shift, name) == IF name \in DOMAIN shift THEN shift[name] ELSE 0

ShiftLabOf(lab, shiftL, shiftA, shiftB) ==
  clampLab(Lab(Add(lab.L, shiftL), Add(lab.a, shiftA), Add(lab.b, shiftB)))

\* The Lab value the shift hands to labToRgb for one pixel.
ShiftLab(px, shiftL, shiftA, shiftB) ==
  ShiftLabOf(rgbToLab(px[1], px[2], px[3]), shiftL, shiftA, shiftB)

ShiftPixel(px, shiftL, shiftA, shiftB, strength) ==
  WritePixel(px, ShiftLab(px, shiftL, shiftA, shiftB), strength)

\* The loop of applyLabShift, after the two early returns.
ShiftLoop(data, shiftL, shiftA, shiftB, strength) ==
  IF shiftL = 0 /\ shiftA = 0 /\ shiftB = 0 THEN data
  ELSE [i \in 1..Len(data) |->
          ShiftPixel(data[i], shiftL, shiftA, shiftB, strength)]

applyLabShift(data, shift, strength) ==
  IF IsNull(shift) THEN data
  ELSE ShiftLoop(data, Component(shift, "L"), Component(shift, "a"),
                 Component(shift, "b"), strength)
-----------------------------------------------------------------------------
(* Bounds of the model *)

\* Number of images in the list.
NumImages == 2

\* Number of pixels of the largest buffer.
MaxPixels == 3

\* Number of times the process button is pressed.
MaxRuns == 2

\* The round trip is run on the channel values k * 255 / ConvSteps.
ConvSteps == 6

\* Number of images added to the list while the controls are used.
MaxAdded == 2

\* Width of the sample image, in pixels; it has two rows.
SampleWidth == 8

-----------------------------------------------------------------------------
(* Inputs *)

Pixel(r, g, b) == <<r, g, b, 255>>

\* Colours the input buffers are made of.
Palette == <<Pixel(200, 30, 40), <<10, 120, 240, 128>>, Pixel(128, 128, 128),
             <<255, 255, 255, 0>>, Pixel(0, 0, 0), <<90, 200, 60, 64>>>>

PaletteAt(k) == Palette[((k - 1) % Len(Palette)) + 1]

\* A buffer of n pixels: the palette from colour k on in steps of stepK
\* (stepK = 0 gives a buffer of one colour).
BufferOf(n, k, stepK) == [i \in 1..n |-> PaletteAt(k + (i - 1) * stepK)]

\* The decoded content of the k-th image file.
FileBuffer(k) == BufferOf(MaxPixels, 2 * k - 1, 1)

ImageIds == 1..NumImages

\* An object without properties.
EmptyObject == [k \in {} |-> 0]

\* The settings after construction (part_002:145-188).
DefaultSettings ==
  [recoveryEnabled |-> TRUE, recoveryAutoWB |-> TRUE,
   recoveryAutoExposure |-> TRUE, recoveryTarget |-> Lab(50 * LabScale, 0, 0),
   strength |-> StrScale, mode |-> "full", spotShift |-> Null]

\* A spot shift: target - measured of a sample.
SampleShift == Lab(3 * LabScale, -2 * LabScale, 4 * LabScale)

\* The settings a run starts from: the defaults, and the defaults with one
\* or two controls changed.  The recovery target with L = NaN is the custom
\* preset with its L* field cleared, for which parseFloat('') is NaN.
Settings ==
  {DefaultSettings,
   [DefaultSettings EXCEPT !.recoveryEnabled = FALSE],
   [DefaultSettings EXCEPT !.recoveryTarget = Lab(NaN, 0, 0)],
   [DefaultSettings EXCEPT !.spotShift = SampleShift],
   [DefaultSettings EXCEPT !.recoveryAutoWB = FALSE,
                           !.recoveryAutoExposure = FALSE],
   [DefaultSettings EXCEPT !.mode = "luminance", !.recoveryAutoWB = FALSE],
   [DefaultSettings EXCEPT !.mode = "chromatic", !.recoveryAutoExposure = FALSE,
                           !.strength = StrScale \div 2,
                           !.spotShift = SampleShift]}

-----------------------------------------------------------------------------
(* State *)

VARIABLES
  \* the application component
  images,               \* useState images: sequence of records
  files,                \* the decoded pixels of each record's file
  referenceId,
  referenceMode,
  recoveryEnabled,
  recoveryAutoWB,
  recoveryAutoExposure,
  recoveryTarget,       \* recoveryTargetL, recoveryTargetA, recoveryTargetB
  recoveryStrength,
  strength,
  mode,
  spotShift,
  processing,
  apiError,
  pc,                   \* position of handleProcess / runLocalCorrection
  queue,                \* processTargets not yet visited by the for loop
  record,               \* id of the record of the current iteration, or 0
  referenceStats,
  imageData,            \* the buffer of the current iteration
  recovery,             \* result of applyRecovery of the current iteration
  targetStats,
  lastError,
  runs,                 \* number of handleProcess runs started
  outcome,              \* per id, how its iteration of the current run ended
  before,               \* images as they were when the current run started
  history,              \* the buffer after each step of the current iteration
  \* one call of a function of lib/color.js or lib/transfer.js
  coreCall,             \* the function and its arguments
  coreRet,              \* the value returned
  coreData,             \* imageData.data after the call
  coreRaised,           \* whether the call threw
  coreDone,
  \* one round trip rgbToLab, labToRgb
  rtRgb,
  rtLab,
  rtBack,
  rtPc,
  \* the confidence shown with the calibration
  chartFile,            \* whether a chart image is chosen
  chartResult,          \* useState chartResult: the chart analysis, or null
  chartEnvironment,     \* computeEnvironment of the chart image, or null
  environmentInfo,      \* computeEnvironment of the reference image, or null
  confidence,           \* useMemo confidence: {score, label}
  \* the image list, the reference and the mode switches
  serverMode,
  asyncMode,
  filterText,           \* sequence of characters
  modePending,          \* the effects on serverMode, asyncMode have to run
  refPending,           \* the effect on referenceId has to run
  adding,               \* an addFiles call waiting for its images, or null
  nextId,               \* the id of the next record created
  \* polling of an asynchronous job
  attempt,              \* the loop counter of pollJob
  requests,             \* status requests made for the current job
  \* the spot shift from a palette colour
  palette,              \* sequence of {name, lab}
  paletteTarget,
  backgroundSample,     \* the sample image {width, height, data}, or null
  sampleSource,
  samplePickMode,
  samplePickLab,
  samplePreviewData,    \* {width, height, data} of the sample, or null
  measuring,            \* {target, source} of a click awaiting its average
  picked                \* the point <<x, y>> of the last click on the preview

appVars == <<images, files, referenceId, referenceMode, recoveryEnabled,
             recoveryAutoWB, recoveryAutoExposure, recoveryTarget,
             recoveryStrength, strength, mode, spotShift, processing,
             apiError, pc, queue, record, referenceStats, imageData,
             recovery, targetStats, lastError, runs, outcome, before, history>>

configVars == <<files, referenceId, referenceMode, recoveryEnabled,
                recoveryAutoWB, recoveryAutoExposure, recoveryTarget,
                recoveryStrength, strength, mode, spotShift>>

coreVars == <<coreCall, coreRet, coreData, coreRaised, coreDone>>

convVars == <<rtRgb, rtLab, rtBack, rtPc>>

confVars == <<chartFile, chartResult, chartEnvironment, environmentInfo, confidence>>

uiVars == <<serverMode, asyncMode, filterText, modePending, refPending,
            adding, nextId>>

pollVars == <<attempt, requests>>

spotVars == <<palette, paletteTarget, backgroundSample, sampleSource,
              samplePickMode, samplePickLab, samplePreviewData, measuring,
              picked>>

extraVars == <<uiVars, pollVars, spotVars>>

vars == <<appVars, coreVars, convVars, confVars, extraVars>>

-----------------------------------------------------------------------------
(* The application component: helpers *)

\* The names of the files added, as sequences of characters.
FileNames == <<<<"A", "1">>, <<"b", "1">>, <<"a", "b">>, <<"c">>>>

FileName(id) == FileNames[((id - 1) % Len(FileNames)) + 1]

createRecord(id) ==
  [id |-> id, name |-> FileName(id), status |-> "ready", jobId |-> Null,
   processedUrl |-> Null,
   processedBlob |-> Null, processedName |-> Null,
   methodUsed |-> Null, recoveryShift |-> Null, role |-> "edit"]

recoveryAvailable == referenceMode = "reference-image"

\* {...item, ...patch}
Merge(item, patch) ==
  [k \in DOMAIN item |-> IF k \in DOMAIN patch THEN patch[k] ELSE item[k]]

\* A patch that is dropped: the records stay as they are.
updateRecordDropped(list, id, patch) == list

updateRecord(list, id, patch) ==
  [i \in 1..Len(list) |->
     IF list[i].id # id THEN list[i] ELSE Merge(list[i], patch)]

\* A shift whose three components hang on the exposure switch.
computeRecoveryShiftCoupled(stats) ==
  [L |-> IF recoveryAutoExposure THEN Sub(recoveryTarget.L, stats.mean.L) ELSE 0,
   a |-> IF recoveryAutoExposure THEN Sub(recoveryTarget.a, stats.mean.a) ELSE 0,
   b |-> IF recoveryAutoExposure THEN Sub(recoveryTarget.b, stats.mean.b) ELSE 0]

computeRecoveryShift(stats) ==
  [L |-> IF recoveryAutoExposure THEN Sub(recoveryTarget.L, stats.mean.L) ELSE 0,
   a |-> IF recoveryAutoWB THEN Sub(recoveryTarget.a, stats.mean.a) ELSE 0,
   b |-> IF recoveryAutoWB THEN Sub(recoveryTarget.b, stats.mean.b) ELSE 0]

\* A recovery that computes the shift and does not apply it.
applyRecoveryUnapplied(data) ==
  [shift |-> IF ~recoveryAvailable \/ ~recoveryEnabled THEN Null
             ELSE computeRecoveryShift(computeLabStats(data, 2)),
   stats |-> computeLabStats(data, 2), data |-> data]

\* {shift, stats} and the buffer after applyLabShift(imageData, shift,
\* recoveryStrength).
RecoveryShifted(data, stats, shift) ==
  [shift |-> shift, stats |-> stats,
   data |-> applyLabShift(data, shift, recoveryStrength)]

RecoveryFrom(data, stats) ==
  RecoveryShifted(data, stats, computeRecoveryShift(stats))

\* applyRecovery returns {shift, stats} and changes the buffer in place;
\* the model returns the changed buffer as a third field.
applyRecovery(data) ==
  IF ~recoveryAvailable \/ ~recoveryEnabled
  THEN [shift |-> Null, stats |-> computeLabStats(data, 2), data |-> data]
  ELSE RecoveryFrom(data, computeLabStats(data, 2))

\* String.prototype.toLowerCase on the letters the names are made of.
LowerOf(char) ==
  IF char = "A" THEN "a" ELSE IF char = "B" THEN "b"
  ELSE IF char = "C" THEN "c" ELSE char

toLowerCase(text) == [i \in 1..Len(text) |-> LowerOf(text[i])]

\* String.prototype.trim
trim(text) ==
  IF \A i \in 1..Len(text) : text[i] = " " THEN <<>>
  ELSE SubSeq(text,
              CHOOSE i \in 1..Len(text) :
                text[i] # " " /\ \A j \in 1..(i - 1) : text[j] = " ",
              CHOOSE i \in 1..Len(text) :
                text[i] # " " /\ \A j \in (i + 1)..Len(text) : text[j] = " ")

\* String.prototype.includes
includes(text, term) ==
  \E k \in 0..(Len(text) - Len(term)) : SubSeq(text, k + 1, k + Len(term)) = term

filteredImages(list, text) ==
  IF trim(text) = <<>> THEN list
  ELSE SelectSeq(list, LAMBDA item :
                   includes(toLowerCase(item.name), toLowerCase(trim(text))))

referenceImages(list, text) ==
  SelectSeq(filteredImages(list, text), LAMBDA item : item.role = "reference")

referenceCandidatesOf(list, text) ==
  IF referenceImages(list, text) # <<>> THEN referenceImages(list, text) ELSE list

\* An effect on referenceId that leaves it alone when no candidate is left.
referenceIdEffectKeeping(candidates, id) ==
  IF candidates = <<>> THEN id
  ELSE IF \E i \in 1..Len(candidates) : candidates[i].id = id THEN id
  ELSE candidates[1].id

\* The value of referenceId after the effect on [referenceCandidates,
\* referenceId] ran; 0 stands for null.
referenceIdEffect(candidates, id) ==
  IF candidates = <<>> THEN 0
  ELSE IF \E i \in 1..Len(candidates) : candidates[i].id = id THEN id
  ELSE candidates[1].id

\* Mode effects without the effect on [asyncMode, serverMode].
modeEffectsSecondOnly(selected, server, async) ==
  [serverMode |->
     IF selected = "reference-image" /\ server THEN FALSE
     ELSE IF selected = "colorchecker" /\ ~server /\ ~async THEN TRUE
     ELSE server,
   asyncMode |-> IF selected = "reference-image" /\ async THEN FALSE ELSE async]

\* serverMode and asyncMode after the effects on [asyncMode, serverMode]
\* and on [referenceMode, serverMode, asyncMode] ran; both read the values
\* of the same render and their updates are applied together.
modeEffects(selected, server, async) ==
  [serverMode |->
     IF async /\ server THEN FALSE
     ELSE IF selected = "reference-image" /\ server THEN FALSE
     ELSE IF selected = "colorchecker" /\ ~server /\ ~async THEN TRUE
     ELSE server,
   asyncMode |-> IF selected = "reference-image" /\ async THEN FALSE ELSE async]

\* canvasToBlob of the canvas the buffer was put on.
canvasToBlob(data) == [pixels |-> data]

NoError == "null"

\* The steps of runLocalCorrection after the record was marked processing.
RecordSteps == {"load", "recovery", "stats", "transfer", "spot", "encode"}

\* images.filter((item) => item.role !== 'reference'); the model has no
\* toggle for excludeReferenceFromProcess, which is true after construction.
processTargets(list) == SelectSeq(list, LAMBDA item : item.role # "reference")

\* images.find((img) => img.id === referenceId) ?? images[0]
referenceOf(list, id) ==
  IF \E i \in 1..Len(list) : list[i].id = id
  THEN list[CHOOSE i \in 1..Len(list) :
              list[i].id = id /\ \A j \in 1..(i - 1) : list[j].id # id]
  ELSE list[1]

\* URL.createObjectURL(blob): a new URL for every blob made.
createObjectURL(id, run) == [objectUrl |-> <<id, run>>]

buildProcessedName(id) == [name |-> id]

\* A catch block that also takes the outputs off the record.
errorPatchClearing ==
  [status |-> "error", processedUrl |-> Null, processedBlob |-> Null,
   processedName |-> Null]

\* The patch of the catch block of the for loop.
errorPatch == [status |-> "error"]

\* The entries handleDownloadAll zips: one for every record that has a
\* processed blob, or a processed URL to fetch it from.
downloadBlob(item) ==
  IF ~IsNull(item.processedBlob) THEN item.processedBlob
  ELSE IF ~IsNull(item.processedUrl) THEN [fetched |-> item.processedUrl]
  ELSE Null

downloadName(item) ==
  IF IsNull(item.processedName) THEN buildProcessedName(item.id)
  ELSE item.processedName

handleDownloadAll(list) ==
  [i \in 1..Len(SelectSeq(list, LAMBDA item : ~IsNull(downloadBlob(item)))) |->
     [name |-> downloadName(SelectSeq(list, LAMBDA item : ~IsNull(downloadBlob(item)))[i]),
      blob |-> downloadBlob(SelectSeq(list, LAMBDA item : ~IsNull(downloadBlob(item)))[i])]]

\* A loop that is left when an iteration failed.
afterCatchAbort(rest) == <<>>

\* What the for loop still has to visit after the catch block ran.
afterCatch(rest) == Tail(rest)
-----------------------------------------------------------------------------
(* The application component: handleProcess and runLocalCorrection *)

\* The image list is empty, as after construction, or holds the images
\* that were added; with the default settings the images may also have been
\* added in the opposite order.
AppInit ==
  /\ images \in {<<>>, [i \in ImageIds |-> createRecord(i)],
                  [i \in ImageIds |-> createRecord(NumImages + 1 - i)]}
  /\ files = [i \in ImageIds |-> FileBuffer(i)]
  /\ referenceId = IF images = <<>> THEN 0 ELSE 1
  /\ referenceMode \in {"reference-image", "colorchecker"}
  /\ \E s \in Settings :
       /\ (images # <<>> /\ images[1].id # 1) => s = DefaultSettings
       /\ recoveryEnabled = s.recoveryEnabled
       /\ recoveryAutoWB = s.recoveryAutoWB
       /\ recoveryAutoExposure = s.recoveryAutoExposure
       /\ recoveryTarget = s.recoveryTarget
       /\ strength = s.strength
       /\ mode = s.mode
       /\ spotShift = s.spotShift
  /\ recoveryStrength = StrScale
  /\ processing = FALSE
  /\ apiError = NoError
  /\ pc = "idle"
  /\ queue = <<>>
  /\ record = 0
  /\ referenceStats = Null
  /\ imageData = Null
  /\ recovery = Null
  /\ targetStats = Null
  /\ lastError = FALSE
  /\ runs = 0
  /\ outcome = [i \in ImageIds |-> "none"]
  /\ before = images
  /\ history = <<>>

\* Boolean(chartResult?.swatches?.length)
hasCalibration ==
  /\ "swatches" \in DOMAIN chartResult
  /\ chartResult.swatches # <<>>

\* handleProcess with an empty image list returns at once.
HandleProcessEmpty ==
  /\ pc = "idle"
  /\ runs < MaxRuns
  /\ images = <<>>
  /\ runs' = runs + 1
  /\ UNCHANGED <<images, processing, apiError, pc, queue, record,
                 referenceStats, imageData, recovery, targetStats, lastError,
                 outcome, before, history>>
  /\ UNCHANGED <<configVars, coreVars, convVars, confVars, extraVars>>

\* A refusal that comes after the processing flag was raised.
HandleProcessRefusedLate ==
  /\ pc = "idle"
  /\ runs < MaxRuns
  /\ images # <<>>
  /\ referenceMode = "colorchecker"
  /\ ~hasCalibration
  /\ apiError' = "ColorChecker diagnosis required"
  /\ processing' = TRUE
  /\ runs' = runs + 1
  /\ UNCHANGED <<images, pc, queue, record, referenceStats,
                 imageData, recovery, targetStats, lastError, outcome,
                 before, history>>
  /\ UNCHANGED <<configVars, coreVars, convVars, confVars, extraVars>>

\* handleProcess in colorchecker mode without chart swatches: the error
\* message is set and the handler returns.
HandleProcessRefused ==
  /\ pc = "idle"
  /\ runs < MaxRuns
  /\ images # <<>>
  /\ referenceMode = "colorchecker"
  /\ ~hasCalibration
  /\ apiError' = "ColorChecker diagnosis required"
  /\ runs' = runs + 1
  /\ UNCHANGED <<images, processing, pc, queue, record, referenceStats,
                 imageData, recovery, targetStats, lastError, outcome,
                 before, history>>
  /\ UNCHANGED <<configVars, coreVars, convVars, confVars, extraVars>>

\* handleProcess in reference-image mode, up to the await of the reference
\* image's pixels.
HandleProcess ==
  /\ pc = "idle"
  /\ runs < MaxRuns
  /\ images # <<>>
  /\ referenceMode = "reference-image"
  /\ apiError' = NoError
  /\ processing' = TRUE
  /\ queue' = processTargets(images)
  /\ lastError' = FALSE
  /\ pc' = "reference"
  /\ runs' = runs + 1
  /\ outcome' = [i \in ImageIds |-> "none"]
  /\ before' = images
  /\ UNCHANGED <<images, record, referenceStats, imageData, recovery,
                 targetStats, history>>
  /\ UNCHANGED <<configVars, coreVars, convVars, confVars, extraVars>>

\* Reference statistics taken from the buffer as it was read.
referenceStatsRaw(data) == computeLabStats(data, 2)

\* applyRecovery(referenceData); computeLabStats(referenceData, 2)
referenceStatsOf(data) == computeLabStats(applyRecovery(data).data, 2)

\* The reference image was read: applyRecovery, computeLabStats.
ReferenceLoaded ==
  /\ pc = "reference"
  /\ referenceStats' =
       referenceStatsOf(files[referenceOf(images, referenceId).id])
  /\ pc' = "loop"
  /\ UNCHANGED <<images, processing, apiError, queue, record, imageData,
                 recovery, targetStats, lastError, runs, outcome, before, history>>
  /\ UNCHANGED <<configVars, coreVars, convVars, confVars, extraVars>>

\* An outer catch without the finally block.
ReferenceFailedStuck ==
  /\ pc = "reference"
  /\ apiError' = "processing failed"
  /\ queue' = <<>>
  /\ pc' = "idle"
  /\ UNCHANGED <<images, processing, record, referenceStats, imageData,
                 recovery, targetStats, lastError, runs, outcome, before, history>>
  /\ UNCHANGED <<configVars, coreVars, convVars, confVars, extraVars>>

\* The reference image could not be read: outer catch, finally.
ReferenceFailed ==
  /\ pc = "reference"
  /\ apiError' = "processing failed"
  /\ processing' = FALSE
  /\ queue' = <<>>
  /\ pc' = "idle"
  /\ UNCHANGED <<images, record, referenceStats, imageData, recovery,
                 targetStats, lastError, runs, outcome, before, history>>
  /\ UNCHANGED <<configVars, coreVars, convVars, confVars, extraVars>>

\* Next iteration of the for loop: runLocalCorrection marks the record as
\* processing and awaits its pixels.
NextRecord ==
  /\ pc = "loop"
  /\ queue # <<>>
  /\ record' = Head(queue).id
  /\ images' = updateRecord(images, Head(queue).id, [status |-> "processing"])
  /\ history' = <<>>
  /\ pc' = "load"
  /\ UNCHANGED <<processing, apiError, queue, referenceStats, imageData,
                 recovery, targetStats, lastError, runs, outcome, before>>
  /\ UNCHANGED <<configVars, coreVars, convVars, confVars, extraVars>>

\* The for loop is over: report the last error, return, finally.
Finish ==
  /\ pc = "loop"
  /\ queue = <<>>
  /\ apiError' = IF lastError THEN "some images failed" ELSE apiError
  /\ processing' = FALSE
  /\ record' = 0
  /\ pc' = "idle"
  /\ UNCHANGED <<images, queue, referenceStats, imageData, recovery,
                 targetStats, lastError, runs, outcome, before, history>>
  /\ UNCHANGED <<configVars, coreVars, convVars, confVars, extraVars>>

\* A load that hands every iteration the buffer of the first image.
LoadShared ==
  /\ pc = "load"
  /\ imageData' = files[1]
  /\ history' = <<files[record]>>
  /\ pc' = "recovery"
  /\ UNCHANGED <<images, processing, apiError, queue, record, referenceStats,
                 recovery, targetStats, lastError, runs, outcome, before>>
  /\ UNCHANGED <<configVars, coreVars, convVars, confVars, extraVars>>

\* getImageDataFromFile(record.file) resolved.
Load ==
  /\ pc = "load"
  /\ imageData' = files[record]
  /\ history' = <<files[record]>>
  /\ pc' = "recovery"
  /\ UNCHANGED <<images, processing, apiError, queue, record, referenceStats,
                 recovery, targetStats, lastError, runs, outcome, before>>
  /\ UNCHANGED <<configVars, coreVars, convVars, confVars, extraVars>>

\* const recovery = applyRecovery(imageData)
Recovery ==
  /\ pc = "recovery"
  /\ \E result \in {applyRecovery(imageData)} :
       /\ recovery' = [shift |-> result.shift, stats |-> result.stats]
       /\ imageData' = result.data
       /\ history' = Append(history, result.data)
  /\ pc' = "stats"
  /\ UNCHANGED <<images, processing, apiError, queue, record, referenceStats,
                 targetStats, lastError, runs, outcome, before>>
  /\ UNCHANGED <<configVars, coreVars, convVars, confVars, extraVars>>

\* const targetStats = computeLabStats(imageData, 2)
TargetStats ==
  /\ pc = "stats"
  /\ targetStats' = computeLabStats(imageData, 2)
  /\ history' = Append(history, imageData)
  /\ pc' = "transfer"
  /\ UNCHANGED <<images, processing, apiError, queue, record, referenceStats,
                 imageData, recovery, lastError, runs, outcome, before>>
  /\ UNCHANGED <<configVars, coreVars, convVars, confVars, extraVars>>

\* applyReinhardTransfer({imageData, referenceStats, targetStats, strength, mode})
Transfer ==
  /\ pc = "transfer"
  /\ \E result \in {applyReinhardTransfer(imageData, referenceStats, targetStats,
                                          strength, mode)} :
       /\ imageData' = result
       /\ history' = Append(history, result)
  /\ pc' = "spot"
  /\ UNCHANGED <<images, processing, apiError, queue, record, referenceStats,
                 recovery, targetStats, lastError, runs, outcome, before>>
  /\ UNCHANGED <<configVars, coreVars, convVars, confVars, extraVars>>

\* applyLabShift(imageData, spotShift, strength)
SpotShift ==
  /\ pc = "spot"
  /\ \E result \in {applyLabShift(imageData, spotShift, strength)} :
       /\ imageData' = result
       /\ history' = Append(history, result)
  /\ pc' = "encode"
  /\ UNCHANGED <<images, processing, apiError, queue, record, referenceStats,
                 recovery, targetStats, lastError, runs, outcome, before>>
  /\ UNCHANGED <<configVars, coreVars, convVars, confVars, extraVars>>

\* putImageData, canvasToBlob, createObjectURL, updateRecord(done); the
\* iteration ends.
Encode ==
  /\ pc = "encode"
  /\ images' = updateRecord(images, record,
                 [status |-> "done", processedBlob |-> canvasToBlob(imageData),
                  processedUrl |-> createObjectURL(record, runs),
                  processedName |-> buildProcessedName(record),
                  methodUsed |-> "Reinhard", recoveryShift |-> recovery.shift])
  /\ outcome' = [outcome EXCEPT ![record] = "completed"]
  /\ queue' = Tail(queue)
  /\ imageData' = Null
  /\ recovery' = Null
  /\ targetStats' = Null
  /\ history' = <<>>
  /\ pc' = "loop"
  /\ UNCHANGED <<processing, apiError, record, referenceStats, lastError,
                 runs, before>>
  /\ UNCHANGED <<configVars, coreVars, convVars, confVars, extraVars>>

\* A step of runLocalCorrection throws (getImageDataFromFile rejects,
\* createObjectURL is handed a null blob, or any other exception): the
\* catch block of the for loop, which treats every step alike.
Throw ==
  /\ pc \in RecordSteps
  /\ images' = updateRecord(images, record, errorPatch)
  /\ lastError' = TRUE
  /\ outcome' = [outcome EXCEPT ![record] = "failed"]
  /\ queue' = afterCatch(queue)
  /\ imageData' = Null
  /\ recovery' = Null
  /\ targetStats' = Null
  /\ history' = <<>>
  /\ pc' = "loop"
  /\ UNCHANGED <<processing, apiError, record, referenceStats, runs, before>>
  /\ UNCHANGED <<configVars, coreVars, convVars, confVars, extraVars>>

Next ==
  \/ HandleProcessEmpty
  \/ HandleProcessRefused
  \/ HandleProcess
  \/ ReferenceLoaded
  \/ ReferenceFailed
  \/ NextRecord
  \/ Finish
  \/ Load
  \/ Recovery
  \/ TargetStats
  \/ Transfer
  \/ SpotShift
  \/ Encode
  \/ Throw


-----------------------------------------------------------------------------
(* Calls of the functions of lib/color.js and lib/transfer.js *)

\* Buffers of 0..MaxPixels pixels, of one colour and of several.
CoreBuffers ==
  {BufferOf(n, k, stepK) : n \in 0..MaxPixels, k \in {1, 3, 4, 5}, stepK \in {0, 1}}

\* The buffers handed to the two transforms: the empty and the largest ones.
TransformBuffers == {data \in CoreBuffers : Len(data) \in {0, MaxPixels}}

\* Stats records computeLabStats returns: of an empty buffer, of a buffer of
\* several colours, of a buffer of one colour.
CoreStats ==
  {computeLabStats(BufferOf(0, 1, 0), 2),
   computeLabStats(BufferOf(3, 1, 1), 1),
   computeLabStats(BufferOf(2, 3, 0), 1)}

\* Strengths 0, 0.5, 1 and 1.5.
CoreStrengths == {0, StrScale \div 2, StrScale, (3 * StrScale) \div 2}

CoreModes == Modes \cup {"other"}

CoreShifts ==
  {Null, EmptyObject, Lab(0, 0, 0), [L |-> 0], [a |-> 0, b |-> 0],
   [L |-> 5 * LabScale], Lab(3 * LabScale, -2 * LabScale, 4 * LabScale),
   Lab(NaN, 0, 0)}

StatsCalls ==
  [fn : {"computeLabStats"}, data : CoreBuffers, sampleStep : {0, 1, 2, 4}]

\* Stats records a caller writes down: mean {50, 2, -3}, std {10, 5, 5} and
\* mean {40, 0, 0}, std {5, 5, 5}.
WrittenReferenceStats ==
  Stats(Lab(50 * LabScale, 2 * LabScale, -3 * LabScale),
        Lab(10 * StdScale, 5 * StdScale, 5 * StdScale))

WrittenTargetStats ==
  Stats(Lab(40 * LabScale, 0, 0),
        Lab(5 * StdScale, 5 * StdScale, 5 * StdScale))

TransferCalls ==
  [fn : {"applyReinhardTransfer"}, data : TransformBuffers,
   referenceStats : CoreStats, targetStats : CoreStats,
   strength : CoreStrengths, mode : CoreModes]
    \cup
  [fn : {"applyReinhardTransfer"}, data : TransformBuffers,
   referenceStats : {WrittenReferenceStats},
   targetStats : {WrittenTargetStats},
   strength : CoreStrengths, mode : CoreModes]

ShiftCalls ==
  [fn : {"applyLabShift"}, data : TransformBuffers, shift : CoreShifts,
   strength : CoreStrengths]

CoreIdle ==
  /\ coreCall = Null
  /\ coreRet = Null
  /\ coreData = <<>>
  /\ coreRaised = FALSE
  /\ coreDone = FALSE

CoreInit ==
  /\ coreCall \in StatsCalls \cup TransferCalls \cup ShiftCalls
  /\ coreRet = Null
  /\ coreData = coreCall.data
  /\ coreRaised = FALSE
  /\ coreDone = FALSE

\* computeLabStats(imageData, sampleStep): no statement of it throws.
CallComputeLabStats ==
  /\ ~coreDone
  /\ coreCall.fn = "computeLabStats"
  /\ coreRet' = computeLabStats(coreCall.data, coreCall.sampleStep)
  /\ coreDone' = TRUE
  /\ UNCHANGED <<coreCall, coreData, coreRaised>>
  /\ UNCHANGED <<appVars, convVars, confVars, extraVars>>

\* applyReinhardTransfer({...}): changes the buffer in place and returns
\* it; no statement of it throws.
CallApplyReinhardTransfer ==
  /\ ~coreDone
  /\ coreCall.fn = "applyReinhardTransfer"
  /\ \E result \in {applyReinhardTransfer(coreCall.data, coreCall.referenceStats,
                      coreCall.targetStats, coreCall.strength, coreCall.mode)} :
       /\ coreData' = result
       /\ coreRet' = result
  /\ coreDone' = TRUE
  /\ UNCHANGED <<coreCall, coreRaised>>
  /\ UNCHANGED <<appVars, convVars, confVars, extraVars>>

\* applyLabShift(imageData, shift, strength): changes the buffer in place
\* and returns it; no statement of it throws.
CallApplyLabShift ==
  /\ ~coreDone
  /\ coreCall.fn = "applyLabShift"
  /\ \E result \in {applyLabShift(coreCall.data, coreCall.shift,
                                  coreCall.strength)} :
       /\ coreData' = result
       /\ coreRet' = result
  /\ coreDone' = TRUE
  /\ UNCHANGED <<coreCall, coreRaised>>
  /\ UNCHANGED <<appVars, convVars, confVars, extraVars>>

CoreNext ==
  \/ CallComputeLabStats
  \/ CallApplyReinhardTransfer
  \/ CallApplyLabShift

-----------------------------------------------------------------------------
(* Round trips rgbToLab, labToRgb *)

ConvLevels == {(k * 255) \div ConvSteps : k \in 0..ConvSteps}

ConvIdle ==
  /\ rtRgb = Null
  /\ rtLab = Null
  /\ rtBack = Null
  /\ rtPc = "idle"

ConvInit ==
  /\ rtRgb \in {Rgb(r, g, b) : r \in ConvLevels, g \in ConvLevels, b \in ConvLevels}
  /\ rtLab = Null
  /\ rtBack = Null
  /\ rtPc = "rgb"

ToLab ==
  /\ rtPc = "rgb"
  /\ rtLab' = rgbToLab(rtRgb.r, rtRgb.g, rtRgb.b)
  /\ rtPc' = "lab"
  /\ UNCHANGED <<rtRgb, rtBack>>
  /\ UNCHANGED <<appVars, coreVars, confVars, extraVars>>

ToRgb ==
  /\ rtPc = "lab"
  /\ rtBack' = labToRgb(rtLab.L, rtLab.a, rtLab.b)
  /\ rtPc' = "back"
  /\ UNCHANGED <<rtRgb, rtLab>>
  /\ UNCHANGED <<appVars, coreVars, confVars, extraVars>>

ConvNext ==
  \/ ToLab
  \/ ToRgb

-----------------------------------------------------------------------------
(* The application component: confidence *)

\* Scores are numbers; the model keeps them in units of 1/ScoreScale.
ScoreScale == 10

\* Values of chartResult.qualityScore in the response of the chart analysis
\* and in stored chart presets: -20, 0, 6, 10, 49.5, 50, 56, 57, 69.5, 70,
\* 72.5, 77, 85, 100, 110 and 250.
QualityScores ==
  {-200, 0, 60, 100, 495, 500, 560, 570, 695, 700, 725, 770, 850, 1000,
   1100, 2500}

\* Chart results: one without a qualityScore, and one for each score.
ChartResults == {EmptyObject} \cup {[qualityScore |-> q] : q \in QualityScores}

Risks == {"low", "medium", "high"}

\* What computeEnvironment returns: null, or a record with a risk.
computeEnvironment == {Null} \cup {[risk |-> r] : r \in Risks}

\* chartResult?.qualityScore != null
HasQualityScore(result) == "qualityScore" \in DOMAIN result

\* A heuristic whose two recovery scores are exchanged.
baseScoreExchanged(result, available, enabled) ==
  IF HasQualityScore(result) THEN result.qualityScore
  ELSE IF available
       THEN (IF enabled THEN 35 * ScoreScale ELSE 55 * ScoreScale)
       ELSE 40 * ScoreScale

\* let score = 40; if (chartResult?.qualityScore != null) ... else if
\* (recoveryAvailable) score = recoveryEnabled ? 55 : 35;
baseScore(result, available, enabled) ==
  IF HasQualityScore(result) THEN result.qualityScore
  ELSE IF available
       THEN (IF enabled THEN 55 * ScoreScale ELSE 35 * ScoreScale)
       ELSE 40 * ScoreScale

\* env?.risk
RiskOf(env) == IF "risk" \in DOMAIN env THEN env.risk ELSE "undefined"

\* chartEnvironment?.risk || environmentInfo?.risk; the risks are
\* non-empty strings.
riskOf(chartEnv, envInfo) ==
  IF RiskOf(chartEnv) # "undefined" THEN RiskOf(chartEnv) ELSE RiskOf(envInfo)

\* A penalty that takes 15 for every tier but low.
riskPenaltyFlat(risk) ==
  IF risk \in {"high", "medium"} THEN 15 * ScoreScale ELSE 0

\* if (risk === 'high') score -= 15; if (risk === 'medium') score -= 7;
riskPenalty(risk) ==
  (IF risk = "high" THEN 15 * ScoreScale ELSE 0)
    + (IF risk = "medium" THEN 7 * ScoreScale ELSE 0)

\* Math.max(0, Math.min(100, score))
clampScore(score) == Max(0, Min(100 * ScoreScale, score))

\* A label whose comparisons are strict.
labelOfStrict(score) ==
  IF score > 70 * ScoreScale THEN "High"
  ELSE IF score > 50 * ScoreScale THEN "Mid" ELSE "Low"

\* The label; the three strings of the source are written High, Mid, Low.
labelOf(score) ==
  IF score >= 70 * ScoreScale THEN "High"
  ELSE IF score >= 50 * ScoreScale THEN "Mid" ELSE "Low"

\* return { score, label }
ConfidenceRecord(score) == [score |-> score, label |-> labelOf(score)]

confidenceOf(result, chartEnv, envInfo, available, enabled) ==
  ConfidenceRecord(clampScore(baseScore(result, available, enabled)
                                - riskPenalty(riskOf(chartEnv, envInfo))))

\* The value of the useMemo in the current render.
confidenceMemo ==
  confidenceOf(chartResult, chartEnvironment, environmentInfo,
               recoveryAvailable, recoveryEnabled)

\* The state the handlers below leave alone.
confFrame ==
  <<files, recoveryAutoWB, recoveryAutoExposure, recoveryTarget,
    recoveryStrength, strength, mode, processing, pc, queue, record,
    referenceStats, imageData, recovery, targetStats, lastError, runs,
    outcome, before, history>>

\* The component with its images loaded and nothing else changed.
ConfInit ==
  /\ images = [i \in ImageIds |-> createRecord(i)]
  /\ files = [i \in ImageIds |-> FileBuffer(i)]
  /\ referenceId = 1
  /\ referenceMode = "colorchecker"
  /\ recoveryEnabled = DefaultSettings.recoveryEnabled
  /\ recoveryAutoWB = DefaultSettings.recoveryAutoWB
  /\ recoveryAutoExposure = DefaultSettings.recoveryAutoExposure
  /\ recoveryTarget = DefaultSettings.recoveryTarget
  /\ strength = DefaultSettings.strength
  /\ mode = DefaultSettings.mode
  /\ spotShift = DefaultSettings.spotShift
  /\ recoveryStrength = StrScale
  /\ processing = FALSE
  /\ apiError = NoError
  /\ pc = "idle"
  /\ queue = <<>>
  /\ record = 0
  /\ referenceStats = Null
  /\ imageData = Null
  /\ recovery = Null
  /\ targetStats = Null
  /\ lastError = FALSE
  /\ runs = 0
  /\ outcome = [i \in ImageIds |-> "none"]
  /\ before = images
  /\ history = <<>>
  /\ chartFile = FALSE
  /\ chartResult = Null
  /\ chartEnvironment = Null
  /\ environmentInfo = Null
  /\ confidence = confidenceMemo

\* No chart, no environment; the confidence of the settings as they are.
ConfIdle ==
  /\ chartFile = FALSE
  /\ chartResult = Null
  /\ chartEnvironment = Null
  /\ environmentInfo = Null
  /\ confidence = confidenceMemo

\* handleChartChange with a file chosen.
HandleChartChange ==
  /\ chartFile' = TRUE
  /\ chartResult' = Null
  /\ chartEnvironment' = Null
  /\ apiError' = NoError
  /\ UNCHANGED <<images, referenceId, referenceMode, recoveryEnabled,
                 spotShift, environmentInfo>>
  /\ UNCHANGED <<confFrame, coreVars, convVars, extraVars>>
  /\ confidence' = confidenceMemo'

\* analyzeChart without a chart file.
AnalyzeChartRefused ==
  /\ ~chartFile
  /\ apiError' = "ColorChecker image required"
  /\ UNCHANGED <<images, referenceId, referenceMode, recoveryEnabled,
                 spotShift, chartFile, chartResult, chartEnvironment,
                 environmentInfo>>
  /\ UNCHANGED <<confFrame, coreVars, convVars, extraVars>>
  /\ confidence' = confidenceMemo'

\* analyzeChart, the analysis answering.
AnalyzeChart ==
  /\ chartFile
  /\ apiError' = NoError
  /\ chartEnvironment' \in computeEnvironment
  /\ chartResult' \in ChartResults
  /\ UNCHANGED <<images, referenceId, referenceMode, recoveryEnabled,
                 spotShift, chartFile, environmentInfo>>
  /\ UNCHANGED <<confFrame, coreVars, convVars, extraVars>>
  /\ confidence' = confidenceMemo'

\* analyzeChart, the analysis failing after the environment was stored.
AnalyzeChartFailed ==
  /\ chartFile
  /\ chartEnvironment' \in computeEnvironment
  /\ apiError' = "Chart analysis failed."
  /\ UNCHANGED <<images, referenceId, referenceMode, recoveryEnabled,
                 spotShift, chartFile, chartResult, environmentInfo>>
  /\ UNCHANGED <<confFrame, coreVars, convVars, extraVars>>
  /\ confidence' = confidenceMemo'

\* handleChartPresetSelect of a stored preset.
HandleChartPresetSelect ==
  /\ chartResult' \in ChartResults
  /\ chartFile' = FALSE
  /\ UNCHANGED <<images, referenceId, referenceMode, recoveryEnabled,
                 spotShift, apiError, chartEnvironment, environmentInfo>>
  /\ UNCHANGED <<confFrame, coreVars, convVars, extraVars>>
  /\ confidence' = confidenceMemo'

\* handleClear
HandleClear ==
  /\ images' = <<>>
  /\ referenceId' = 0
  /\ chartFile' = FALSE
  /\ chartResult' = Null
  /\ chartEnvironment' = Null
  /\ palette' = <<>>
  /\ backgroundSample' = Null
  /\ samplePreviewData' = Null
  /\ samplePickLab' = Null
  /\ spotShift' = Null
  /\ refPending' = (refPending \/ images # <<>> \/ referenceId # 0)
  /\ UNCHANGED <<referenceMode, recoveryEnabled, apiError, environmentInfo>>
  /\ UNCHANGED <<serverMode, asyncMode, filterText, modePending, adding, nextId>>
  /\ UNCHANGED <<paletteTarget, sampleSource, samplePickMode, measuring,
                 picked>>
  /\ UNCHANGED <<confFrame, coreVars, convVars, pollVars>>
  /\ confidence' = confidenceMemo'

\* The radio buttons of the reference mode.
SetReferenceMode ==
  /\ referenceMode' \in {"colorchecker", "reference-image"}
  /\ modePending' = (modePending \/ referenceMode' # referenceMode)
  /\ UNCHANGED <<images, referenceId, recoveryEnabled, spotShift, apiError,
                 chartFile, chartResult, chartEnvironment, environmentInfo>>
  /\ UNCHANGED <<serverMode, asyncMode, filterText, refPending, adding, nextId>>
  /\ UNCHANGED <<confFrame, coreVars, convVars, pollVars, spotVars>>
  /\ confidence' = confidenceMemo'

\* The effect on [referenceMode, images, referenceId]: the environment of
\* the reference image, once its metadata was read.
ReferenceEffect ==
  /\ IF referenceMode # "reference-image"
     THEN environmentInfo' = Null
     ELSE IF \E i \in 1..Len(images) : images[i].id = referenceId
          THEN environmentInfo' \in computeEnvironment
          ELSE UNCHANGED environmentInfo
  /\ UNCHANGED <<images, referenceId, referenceMode, recoveryEnabled,
                 spotShift, apiError, chartFile, chartResult,
                 chartEnvironment>>
  /\ UNCHANGED <<confFrame, coreVars, convVars, extraVars>>
  /\ confidence' = confidenceMemo'

\* The checkbox of the recovery.
SetRecoveryEnabled ==
  /\ recoveryEnabled' \in BOOLEAN
  /\ UNCHANGED <<images, referenceId, referenceMode, spotShift, apiError,
                 chartFile, chartResult, chartEnvironment, environmentInfo>>
  /\ UNCHANGED <<confFrame, coreVars, convVars, extraVars>>
  /\ confidence' = confidenceMemo'

ConfNext ==
  \/ HandleChartChange
  \/ AnalyzeChartRefused
  \/ AnalyzeChart
  \/ AnalyzeChartFailed
  \/ HandleChartPresetSelect
  \/ HandleClear
  \/ SetReferenceMode
  \/ ReferenceEffect
  \/ SetRecoveryEnabled

-----------------------------------------------------------------------------
(* The image list, the reference image and the mode switches *)

\* The texts typed into the search field.
FilterTexts == {<<>>, <<"a">>, <<" ", "B", " ">>, <<"z">>}

\* React runs the effects of an event before it handles the next event.
UiSettled == ~modePending /\ ~refPending

\* The state no handler or effect of this section touches.
uiFrame ==
  <<confFrame, recoveryEnabled, spotShift, confVars, coreVars, convVars,
    pollVars, spotVars>>

\* Whether the effect on [referenceCandidates, referenceId] has to run
\* after a step: it was waiting already, or one of its dependencies changed.
refTriggered ==
  \/ refPending
  \/ referenceCandidatesOf(images', filterText') # referenceCandidatesOf(images, filterText)
  \/ referenceId' # referenceId

\* addFiles up to setImages: the records are created and appended; the
\* call keeps the referenceId of the render it was made in.
AddFiles ==
  /\ UiSettled
  /\ adding = Null
  /\ \E count \in 1..2 :
       /\ nextId + count - 1 <= MaxAdded
       /\ images' = images \o [i \in 1..count |-> createRecord(nextId + i - 1)]
       /\ nextId' = nextId + count
       /\ adding' = [seen |-> referenceId, first |-> nextId]
  /\ apiError' = NoError
  /\ UNCHANGED <<referenceId, referenceMode, serverMode, asyncMode, filterText,
                 modePending>>
  /\ UNCHANGED uiFrame
  /\ refPending' = refTriggered

\* addFiles after its images were loaded: a record whose image failed to
\* load gets status 'error', and referenceId is set to the first new record
\* when it was null as the call was made.
AddFilesDone ==
  /\ adding # Null
  /\ \E failed \in {{}, {adding.first}} :
       images' = [i \in 1..Len(images) |->
                    IF images[i].id \in failed
                    THEN Merge(images[i], [status |-> "error"]) ELSE images[i]]
  /\ referenceId' = IF adding.seen = 0 THEN adding.first ELSE referenceId
  /\ adding' = Null
  /\ UNCHANGED <<referenceMode, apiError, serverMode, asyncMode, filterText,
                 modePending, nextId>>
  /\ UNCHANGED uiFrame
  /\ refPending' = refTriggered

\* referenceId after handleRemove(id) left the list `rest`.
removeReference(rest, id, current) ==
  IF current = id /\ rest # <<>> THEN rest[1].id
  ELSE IF rest = <<>> THEN 0
  ELSE current

\* handleRemove(id); the chart is not taken from the list.
HandleRemove ==
  /\ UiSettled
  /\ ~processing
  /\ \E i \in 1..Len(images) :
       /\ images' = SelectSeq(images, LAMBDA item : item.id # images[i].id)
       /\ referenceId' = removeReference(images', images[i].id, referenceId)
  /\ UNCHANGED <<referenceMode, apiError, serverMode, asyncMode, filterText,
                 modePending, adding, nextId>>
  /\ UNCHANGED uiFrame
  /\ refPending' = refTriggered

\* toggleReferenceRole(id)
ToggleReferenceRole ==
  /\ UiSettled
  /\ ~processing
  /\ \E i \in 1..Len(images) :
       images' = updateRecord(images, images[i].id,
                   [role |-> IF images[i].role = "reference" THEN "edit"
                             ELSE "reference"])
  /\ UNCHANGED <<referenceId, referenceMode, apiError, serverMode, asyncMode,
                 filterText, modePending, adding, nextId>>
  /\ UNCHANGED uiFrame
  /\ refPending' = refTriggered

\* The search field.
SetFilterText ==
  /\ UiSettled
  /\ filterText' \in FilterTexts
  /\ UNCHANGED <<images, referenceId, referenceMode, apiError, serverMode,
                 asyncMode, modePending, adding, nextId>>
  /\ UNCHANGED uiFrame
  /\ refPending' = refTriggered

\* The radio button of a record and the select of the reference image.
SelectReference ==
  /\ UiSettled
  /\ referenceMode = "reference-image"
  /\ \E i \in 1..Len(images) : referenceId' = images[i].id
  /\ UNCHANGED <<images, referenceMode, apiError, serverMode, asyncMode,
                 filterText, modePending, adding, nextId>>
  /\ UNCHANGED uiFrame
  /\ refPending' = refTriggered

\* The button of handleClear.
ClickClear == UiSettled /\ ~processing /\ images # <<>> /\ HandleClear

\* The radio buttons of the reference mode.
ClickReferenceMode == UiSettled /\ SetReferenceMode

\* The effect on [referenceCandidates, referenceId].
ReferenceIdEffect ==
  /\ refPending
  /\ referenceId' =
       referenceIdEffect(referenceCandidatesOf(images, filterText), referenceId)
  /\ refPending' = (referenceId' # referenceId)
  /\ UNCHANGED <<images, referenceMode, apiError, serverMode, asyncMode,
                 filterText, modePending, adding, nextId>>
  /\ UNCHANGED uiFrame

\* The checkbox of serverMode, which is disabled without a calibration,
\* in asyncMode and outside colorchecker mode.
SetServerMode ==
  /\ UiSettled
  /\ hasCalibration /\ ~asyncMode /\ referenceMode = "colorchecker"
  /\ serverMode' = ~serverMode
  /\ modePending' = TRUE
  /\ UNCHANGED <<images, referenceId, referenceMode, apiError, asyncMode,
                 filterText, refPending, adding, nextId>>
  /\ UNCHANGED uiFrame

\* The checkbox of asyncMode, which is disabled without a calibration and
\* outside colorchecker mode.
SetAsyncMode ==
  /\ UiSettled
  /\ hasCalibration /\ referenceMode = "colorchecker"
  /\ asyncMode' = ~asyncMode
  /\ modePending' = TRUE
  /\ UNCHANGED <<images, referenceId, referenceMode, apiError, serverMode,
                 filterText, refPending, adding, nextId>>
  /\ UNCHANGED uiFrame

\* The effects on [asyncMode, serverMode] and on [referenceMode, serverMode,
\* asyncMode]; they run again when they changed a switch.
ModeEffects ==
  /\ modePending
  /\ \E result \in {modeEffects(referenceMode, serverMode, asyncMode)} :
       /\ serverMode' = result.serverMode
       /\ asyncMode' = result.asyncMode
       /\ modePending' = (result.serverMode # serverMode \/ result.asyncMode # asyncMode)
  /\ UNCHANGED <<images, referenceId, referenceMode, apiError, filterText,
                 refPending, adding, nextId>>
  /\ UNCHANGED uiFrame

\* A chart analysis with swatches.
Calibration == [swatches |-> <<1>>]

\* The component as constructed, its effects still to run; a chart was
\* analysed or not.
UiInit ==
  /\ chartFile = FALSE
  /\ chartResult \in {Null, Calibration}
  /\ chartEnvironment = Null
  /\ environmentInfo = Null
  /\ confidence = confidenceMemo
  /\ serverMode = FALSE
  /\ asyncMode = FALSE
  /\ filterText = <<>>
  /\ modePending = TRUE
  /\ refPending = TRUE
  /\ adding = Null
  /\ nextId = 1

UiNext ==
  \/ AddFiles
  \/ AddFilesDone
  \/ HandleRemove
  \/ ToggleReferenceRole
  \/ SetFilterText
  \/ SelectReference
  \/ ClickClear
  \/ ClickReferenceMode
  \/ ReferenceIdEffect
  \/ SetServerMode
  \/ SetAsyncMode
  \/ ModeEffects

-----------------------------------------------------------------------------
(* The application component: handleProcess in asyncMode, runAsyncJob and
   pollJob *)

maxAttempts == 120

\* The answers of /api/jobs/status that pollJob tells apart: a response that
\* is not ok, and the status of an ok response.
StatusAnswers == {"not-ok", "queued", "processing", "error", "done"}

\* The methodUsed of a finished job: status.methodUsed || serverMethod.
MethodsUsed == {"reported", "serverMethod"}

\* A loop of pollJob that ends without a word on the record.
exhaustedPatchNone == EmptyObject

\* The patch of pollJob after its loop.
exhaustedPatch == [status |-> "error"]

\* The positions of runAsyncJob and pollJob.
AsyncSteps == {"submit", "status", "result", "wait"}

\* The state the steps of this section leave alone.
pollFrame ==
  <<referenceStats, imageData, recovery, targetStats, history, configVars,
    coreVars, convVars, confVars, uiVars, spotVars>>

\* handleProcess in colorchecker mode with a calibration and asyncMode on.
HandleProcessAsync ==
  /\ pc = "idle"
  /\ runs < MaxRuns
  /\ images # <<>>
  /\ referenceMode = "colorchecker" /\ hasCalibration
  /\ asyncMode
  /\ apiError' = NoError
  /\ processing' = TRUE
  /\ queue' = processTargets(images)
  /\ lastError' = FALSE
  /\ pc' = "jobs"
  /\ runs' = runs + 1
  /\ outcome' = [i \in ImageIds |-> "none"]
  /\ before' = images
  /\ UNCHANGED <<images, record, attempt, requests>>
  /\ UNCHANGED pollFrame

\* Next iteration of the for loop: runAsyncJob marks the record as queued
\* and awaits the upload blob and the requests that submit the job.
RunAsyncJob ==
  /\ pc = "jobs"
  /\ queue # <<>>
  /\ record' = Head(queue).id
  /\ images' = updateRecord(images, Head(queue).id, [status |-> "queued"])
  /\ pc' = "submit"
  /\ UNCHANGED <<processing, apiError, queue, lastError, runs, outcome, before,
                 attempt, requests>>
  /\ UNCHANGED pollFrame

\* The job was submitted: the record gets its jobId and pollJob starts.
Submitted ==
  /\ pc = "submit"
  /\ images' = updateRecord(images, record,
                 [status |-> "queued", jobId |-> [job |-> record],
                  methodUsed |-> "serverMethod"])
  /\ attempt' = 0
  /\ requests' = 0
  /\ pc' = "status"
  /\ UNCHANGED <<processing, apiError, queue, record, lastError, runs, outcome,
                 before>>
  /\ UNCHANGED pollFrame

\* The iteration of the for loop is over; `how` tells the way it ended.
\* The counters of pollJob are gone with the call.
IterationEnds(how) ==
  /\ outcome' = [outcome EXCEPT ![record] = how]
  /\ queue' = Tail(queue)
  /\ attempt' = 0
  /\ requests' = 0
  /\ pc' = "jobs"
  /\ UNCHANGED <<processing, apiError, record, runs, before>>
  /\ UNCHANGED pollFrame

\* One turn of the loop of pollJob: the status request and what follows
\* from its answer.
PollStatus ==
  /\ pc = "status"
  /\ attempt < maxAttempts
  /\ \E answer \in StatusAnswers :
       \/ /\ answer \in {"not-ok", "queued"}
          /\ requests' = requests + 1
          /\ pc' = "wait"
          /\ UNCHANGED <<images, queue, outcome, attempt>>
       \/ /\ answer = "processing"
          /\ requests' = requests + 1
          /\ images' = updateRecord(images, record, [status |-> "processing"])
          /\ pc' = "wait"
          /\ UNCHANGED <<queue, outcome, attempt>>
       \/ /\ answer = "done"
          /\ requests' = requests + 1
          /\ pc' = "result"
          /\ UNCHANGED <<images, queue, outcome, attempt>>
       \/ /\ answer = "error"
          /\ images' = updateRecord(images, record, [status |-> "error"])
          /\ outcome' = [outcome EXCEPT ![record] = "job error"]
          /\ queue' = Tail(queue)
          /\ attempt' = 0
          /\ requests' = 0
          /\ pc' = "jobs"
  /\ UNCHANGED <<processing, apiError, record, lastError, runs, before>>
  /\ UNCHANGED pollFrame

\* The result request was answered: not ok, or ok and the result is
\* downloaded and stored.
PollResult ==
  /\ pc = "result"
  /\ \/ /\ images' = updateRecord(images, record, [status |-> "error"])
        /\ IterationEnds("result not ok")
     \/ /\ \E method \in MethodsUsed :
             images' = updateRecord(images, record,
                         [status |-> "done", processedBlob |-> [downloaded |-> record],
                          processedUrl |-> createObjectURL(record, runs),
                          processedName |-> buildProcessedName(record),
                          methodUsed |-> method])
        /\ IterationEnds("downloaded")
  /\ lastError' = lastError

\* The three seconds between two turns are over.
PollWait ==
  /\ pc = "wait"
  /\ attempt' = attempt + 1
  /\ pc' = "status"
  /\ UNCHANGED <<images, processing, apiError, queue, record, lastError, runs,
                 outcome, before, requests>>
  /\ UNCHANGED pollFrame

\* The loop of pollJob is over without an answer that ended it.
PollExhausted ==
  /\ pc = "status"
  /\ attempt >= maxAttempts
  /\ images' = updateRecord(images, record, exhaustedPatch)
  /\ lastError' = lastError
  /\ IterationEnds("exhausted")

\* A request of runAsyncJob or pollJob throws, or the SAS or submit
\* response is not ok: the catch block of the for loop.
AsyncThrow ==
  /\ pc \in AsyncSteps \ {"wait"}
  /\ images' = updateRecord(images, record, errorPatch)
  /\ lastError' = TRUE
  /\ IterationEnds("thrown")

\* The for loop is over: report the last error, return, finally.
AsyncFinish ==
  /\ pc = "jobs"
  /\ queue = <<>>
  /\ apiError' = IF lastError THEN "some images failed" ELSE apiError
  /\ processing' = FALSE
  /\ record' = 0
  /\ pc' = "idle"
  /\ UNCHANGED <<images, queue, lastError, runs, outcome, before, attempt,
                 requests>>
  /\ UNCHANGED pollFrame

\* The images are loaded, a chart was analysed and asyncMode is on.
PollInit ==
  /\ images = [i \in ImageIds |-> createRecord(i)]
  /\ files = [i \in ImageIds |-> FileBuffer(i)]
  /\ referenceId = 1
  /\ referenceMode = "colorchecker"
  /\ recoveryEnabled = DefaultSettings.recoveryEnabled
  /\ recoveryAutoWB = DefaultSettings.recoveryAutoWB
  /\ recoveryAutoExposure = DefaultSettings.recoveryAutoExposure
  /\ recoveryTarget = DefaultSettings.recoveryTarget
  /\ strength = DefaultSettings.strength
  /\ mode = DefaultSettings.mode
  /\ spotShift = DefaultSettings.spotShift
  /\ recoveryStrength = StrScale
  /\ processing = FALSE
  /\ apiError = NoError
  /\ pc = "idle"
  /\ queue = <<>>
  /\ record = 0
  /\ referenceStats = Null
  /\ imageData = Null
  /\ recovery = Null
  /\ targetStats = Null
  /\ lastError = FALSE
  /\ runs = 0
  /\ outcome = [i \in ImageIds |-> "none"]
  /\ before = images
  /\ history = <<>>
  /\ chartFile = FALSE
  /\ chartResult = Calibration
  /\ chartEnvironment = Null
  /\ environmentInfo = Null
  /\ confidence = confidenceMemo
  /\ serverMode = FALSE
  /\ asyncMode = TRUE
  /\ filterText = <<>>
  /\ modePending = FALSE
  /\ refPending = FALSE
  /\ adding = Null
  /\ nextId = NumImages + 1
  /\ attempt = 0
  /\ requests = 0

PollNext ==
  \/ HandleProcessAsync
  \/ RunAsyncJob
  \/ Submitted
  \/ PollStatus
  \/ PollResult
  \/ PollWait
  \/ PollExhausted
  \/ AsyncThrow
  \/ AsyncFinish

\* A request that was made is answered or fails, and a timer that was set
\* fires: every position of a started run is left.
AsyncSettle ==
  /\ pc # "idle"
  /\ pc' \in {"idle", "jobs"} \cup AsyncSteps
  /\ pc' # pc

-----------------------------------------------------------------------------
(* The application component: the spot shift from a palette colour *)

\* getImageDataFromFile of the file of a record: the pixels in one row.
imageOfFile(buffer) == [width |-> Len(buffer), height |-> 1, data |-> buffer]

\* The sample image the user chooses.
SampleImage ==
  [width |-> SampleWidth, height |-> 2,
   data |-> BufferOf(SampleWidth * 2, 1, 1)]

\* A palette of two named colours.
PaletteItems ==
  << [name |-> "skin", lab |-> Lab(70 * LabScale, 15 * LabScale, 18 * LabScale)],
     [name |-> "sky", lab |-> Lab(60 * LabScale, -5 * LabScale, -30 * LabScale)] >>

PaletteTargets == {"", "skin", "sky"}

\* The radius handleSamplePick passes to computeLabFromPatch.
PickRadius == 6

\* The pixels the two loops of computeLabFromPatch visit, as indexes of data.
patchPixels(image, x, y, radius) ==
  { yy * image.width + xx + 1 :
      xx \in Max(0, x - radius)..Min(image.width - 1, x + radius),
      yy \in Max(0, y - radius)..Min(image.height - 1, y + radius) }

\* sum / count of each component over the visited pixels.
patchMean(lab, idx) ==
  Lab(Mean(SumOver([i \in idx |-> lab[i].L], idx), Cardinality(idx)),
      Mean(SumOver([i \in idx |-> lab[i].a], idx), Cardinality(idx)),
      Mean(SumOver([i \in idx |-> lab[i].b], idx), Cardinality(idx)))

computeLabFromPatch(image, x, y, radius) ==
  patchMean(LabsOf(image.data, patchPixels(image, x, y, radius)),
            patchPixels(image, x, y, radius))

computeAverageLab(image) == computeLabStats(image.data, 1).mean

\* handleSamplePick: a click on the preview at pixel (x, y); Math.round gives
\* 0..width and 0..height.  The preview is shown in pick mode 'picker' only.
HandleSamplePick ==
  /\ samplePickMode = "picker"
  /\ samplePreviewData # Null
  /\ \E x \in {0, samplePreviewData.width}, y \in {0, samplePreviewData.height} :
       /\ picked' = <<x, y>>
       /\ samplePickLab' = computeLabFromPatch(samplePreviewData, x, y, PickRadius)
  /\ UNCHANGED <<appVars, coreVars, convVars, confVars, uiVars, pollVars>>
  /\ UNCHANGED <<palette, paletteTarget, backgroundSample, sampleSource,
                 samplePickMode, samplePreviewData, measuring>>

\* images.find((item) => item.id === referenceId)
hasReference == \E i \in 1..Len(images) : images[i].id = referenceId

hasSampleSource ==
  IF sampleSource = "reference" THEN hasReference ELSE backgroundSample # Null

\* palette.find((item) => item.name === paletteTarget) ?? palette[0]
targetOf(list, name) ==
  IF \E i \in 1..Len(list) : list[i].name = name
  THEN list[CHOOSE i \in 1..Len(list) :
              /\ list[i].name = name
              /\ \A j \in 1..(i - 1) : list[j].name # name]
  ELSE list[1]

sourceFile ==
  IF sampleSource = "reference"
  THEN IF hasReference THEN imageOfFile(files[referenceId]) ELSE Null
  ELSE backgroundSample

spotShiftReversed(target, measured) ==
  Lab(Sub(measured.L, target.L), Sub(measured.a, target.a),
      Sub(measured.b, target.b))

\* shift = target.lab - measured
spotShiftOf(target, measured) ==
  Lab(Sub(target.L, measured.L), Sub(target.a, measured.a),
      Sub(target.b, measured.b))

spotFrame ==
  <<images, files, referenceId, referenceMode, recoveryEnabled,
    recoveryAutoWB, recoveryAutoExposure, recoveryTarget, recoveryStrength,
    strength, mode, processing, pc, queue, record, referenceStats, imageData,
    recovery, targetStats, lastError, runs, outcome, before, history,
    coreVars, convVars, confVars, uiVars, pollVars,
    palette, paletteTarget, backgroundSample, sampleSource, samplePickMode,
    samplePickLab, samplePreviewData, picked>>

\* The click on the button that computes the shift, up to the await of
\* computeAverageLab.  The button is disabled without a palette or without
\* a background sample.
ClickComputeShift ==
  /\ palette # <<>>
  /\ backgroundSample # Null
  /\ measuring = Null
  /\ IF palette = <<>> \/ ~hasSampleSource
     THEN /\ apiError' = "palette and sample needed"
          /\ UNCHANGED <<spotShift, measuring>>
     ELSE IF sourceFile = Null
     THEN /\ apiError' = "no image to sample"
          /\ UNCHANGED <<spotShift, measuring>>
     ELSE IF samplePickMode = "picker" /\ samplePickLab # Null
     THEN /\ spotShift' = spotShiftOf(targetOf(palette, paletteTarget).lab,
                                      samplePickLab)
          /\ UNCHANGED <<apiError, measuring>>
     ELSE /\ measuring' = [target |-> targetOf(palette, paletteTarget),
                           source |-> sourceFile]
          /\ UNCHANGED <<apiError, spotShift>>
  /\ UNCHANGED spotFrame

\* computeAverageLab has returned: setSpotShift(shift).
ShiftComputed ==
  /\ measuring # Null
  /\ spotShift' = spotShiftOf(measuring.target.lab,
                              computeAverageLab(measuring.source))
  /\ measuring' = Null
  /\ UNCHANGED <<apiError, spotFrame>>

\* getImageDataFromFile has rejected: the handler ends at its await.
MeasureFailed ==
  /\ measuring # Null
  /\ measuring' = Null
  /\ UNCHANGED <<apiError, spotShift, spotFrame>>

\* A palette, a sample and the controls as the user may have left them; the
\* preview of the sample source is loaded.
SpotInit ==
  /\ images \in {<<>>, [i \in ImageIds |-> createRecord(i)]}
  /\ files = [i \in ImageIds |-> FileBuffer(i)]
  /\ referenceId = IF images = <<>> THEN 0 ELSE 1
  /\ referenceMode = "colorchecker"
  /\ recoveryEnabled = DefaultSettings.recoveryEnabled
  /\ recoveryAutoWB = DefaultSettings.recoveryAutoWB
  /\ recoveryAutoExposure = DefaultSettings.recoveryAutoExposure
  /\ recoveryTarget = DefaultSettings.recoveryTarget
  /\ strength = DefaultSettings.strength
  /\ mode = DefaultSettings.mode
  /\ spotShift \in {Null, SampleShift}
  /\ recoveryStrength = StrScale
  /\ processing = FALSE
  /\ apiError = NoError
  /\ pc = "idle"
  /\ queue = <<>>
  /\ record = 0
  /\ referenceStats = Null
  /\ imageData = Null
  /\ recovery = Null
  /\ targetStats = Null
  /\ lastError = FALSE
  /\ runs = 0
  /\ outcome = [i \in ImageIds |-> "none"]
  /\ before = images
  /\ history = <<>>
  /\ palette \in {<<>>, PaletteItems}
  /\ paletteTarget \in PaletteTargets
  /\ backgroundSample \in {Null, SampleImage}
  /\ sampleSource \in {"background", "reference"}
  /\ samplePickMode \in {"average", "picker"}
  /\ samplePickLab = Null
  /\ samplePreviewData = sourceFile
  /\ measuring = Null
  /\ picked = Null

SpotNext ==
  \/ HandleSamplePick
  \/ ClickComputeShift
  \/ ShiftComputed
  \/ MeasureFailed

-----------------------------------------------------------------------------
(* Specifications *)

\* The component as constructed: no image, the default settings.
AppIdle ==
  /\ images = <<>>
  /\ files = <<>>
  /\ referenceId = 0
  /\ referenceMode = "colorchecker"
  /\ recoveryEnabled = TRUE
  /\ recoveryAutoWB = TRUE
  /\ recoveryAutoExposure = TRUE
  /\ recoveryTarget = Lab(50 * LabScale, 0, 0)
  /\ recoveryStrength = StrScale
  /\ strength = StrScale
  /\ mode = "full"
  /\ spotShift = Null
  /\ processing = FALSE
  /\ apiError = NoError
  /\ pc = "idle"
  /\ queue = <<>>
  /\ record = 0
  /\ referenceStats = Null
  /\ imageData = Null
  /\ recovery = Null
  /\ targetStats = Null
  /\ lastError = FALSE
  /\ runs = 0
  /\ outcome = [i \in ImageIds |-> "none"]
  /\ before = <<>>
  /\ history = <<>>

\* The switches and the list controls as constructed, no effect waiting.
UiIdle ==
  /\ serverMode = FALSE
  /\ asyncMode = FALSE
  /\ filterText = <<>>
  /\ modePending = FALSE
  /\ refPending = FALSE
  /\ adding = Null
  /\ nextId = Len(images) + 1

PollIdle ==
  /\ attempt = 0
  /\ requests = 0

\* No palette, no sample.
SpotIdle ==
  /\ palette = <<>>
  /\ paletteTarget = ""
  /\ backgroundSample = Null
  /\ sampleSource = "background"
  /\ samplePickMode = "average"
  /\ samplePickLab = Null
  /\ samplePreviewData = Null
  /\ measuring = Null
  /\ picked = Null

ExtraIdle == UiIdle /\ PollIdle /\ SpotIdle

\* Batch runs of the local pipeline.
Init == AppInit /\ CoreIdle /\ ConvIdle /\ ConfIdle /\ ExtraIdle

Spec == Init /\ [][Next]_vars

\* The positions of a run of handleProcess.
Positions == {"idle", "reference", "loop"} \cup RecordSteps

\* A run that was started moves on: whatever it awaits (an image decoded, a
\* canvas encoded) is settled by the browser, by success or by failure, and
\* synchronous code runs to its end.  Every step of a run changes pc, and
\* in every position but 'idle' a step of the run is possible.
Settle == pc # "idle" /\ pc' \in Positions /\ pc' # pc

\* The batch pipeline in which no started run waits forever.
SpecLive == Init /\ [][Next]_vars /\ WF_pc(Settle)

\* Single calls of computeLabStats, applyReinhardTransfer, applyLabShift.
InitCore == AppIdle /\ CoreInit /\ ConvIdle /\ ConfIdle /\ ExtraIdle

SpecCore == InitCore /\ [][CoreNext]_vars

\* Single round trips.
InitConv == AppIdle /\ CoreIdle /\ ConvInit /\ ConfIdle /\ ExtraIdle

SpecConv == InitConv /\ [][ConvNext]_vars

\* The handlers that change what the confidence is computed from.
InitConf == ConfInit /\ CoreIdle /\ ConvIdle /\ ExtraIdle

SpecConf == InitConf /\ [][ConfNext]_vars

\* The list controls and the mode switches; an effect that has to run does
\* run.
InitUi == AppIdle /\ CoreIdle /\ ConvIdle /\ UiInit /\ PollIdle /\ SpotIdle

SpecUi ==
  InitUi /\ [][UiNext]_vars /\ WF_vars(ModeEffects) /\ WF_vars(ReferenceIdEffect)

\* Batch runs of asynchronous jobs, in which no started run waits forever.
InitPoll == PollInit /\ CoreIdle /\ ConvIdle /\ SpotIdle

SpecPoll == InitPoll /\ [][PollNext]_vars /\ WF_pc(AsyncSettle)

\* Clicks on the preview of the sample and on the button of the spot shift.
InitSpot == SpotInit /\ CoreIdle /\ ConvIdle /\ ConfIdle /\ UiIdle /\ PollIdle

SpecSpot == InitSpot /\ [][SpotNext]_vars

-----------------------------------------------------------------------------
(* Properties of the batch pipeline (Spec) *)

\* The record with the given id.
RecordOf(list, id) ==
  IF \E i \in 1..Len(list) : list[i].id = id
  THEN CHOOSE item \in {list[i] : i \in 1..Len(list)} : item.id = id
  ELSE Merge(createRecord(id), [status |-> "absent"])

StatusOf(list, id) == RecordOf(list, id).status

BlobOf(list, id) == RecordOf(list, id).processedBlob

\* C1: in runLocalCorrection the steps run in a fixed order, each on the
\* result of the one before.  The recovery statistics are those of the
\* untouched file buffer; when recovery is available and enabled the shift
\* is computed from them and applied, otherwise there is no shift and the
\* buffer is untouched; the target statistics are those of the buffer after
\* recovery; the transfer runs on that buffer with the reference statistics
\* and those target statistics; the spot shift runs on the transfer's
\* result; and while any step is still to run the record is not 'done'.
C1_StepOrder ==
  /\ pc \in RecordSteps => StatusOf(images, record) = "processing"
  /\ pc \in RecordSteps \ {"load"} => history[1] = files[record]
  /\ pc \in {"stats", "transfer", "spot", "encode"} =>
       /\ recovery.stats = computeLabStats(history[1], 2)
       /\ IF recoveryAvailable /\ recoveryEnabled
          THEN /\ recovery.shift = computeRecoveryShift(recovery.stats)
               /\ history[2] = applyLabShift(history[1], recovery.shift,
                                             recoveryStrength)
          ELSE /\ IsNull(recovery.shift)
               /\ history[2] = history[1]
  /\ pc \in {"transfer", "spot", "encode"} =>
       /\ targetStats = computeLabStats(history[2], 2)
       /\ history[3] = history[2]
  /\ pc \in {"spot", "encode"} =>
       history[4] = applyReinhardTransfer(history[3], referenceStats,
                                          targetStats, strength, mode)
  /\ pc = "encode" =>
       /\ history[5] = applyLabShift(history[4], spotShift, strength)
       /\ imageData = history[5]

\* C1 witness: an iteration is about to store its result after a recovery
\* shift, a transfer and a spot shift that each changed the buffer.
C1_Witness ==
  /\ pc = "encode"
  /\ recoveryAvailable /\ recoveryEnabled
  /\ history[2] # history[1]
  /\ history[4] # history[3]
  /\ history[5] # history[4]

C3_NoPartialDone ==
  \A id \in ImageIds :
    /\ outcome[id] = "failed" =>
         /\ StatusOf(images, id) = "error"
         /\ BlobOf(images, id) = BlobOf(before, id)
    /\ StatusOf(images, id) = "done" =>
         \/ outcome[id] = "completed"
         \/ outcome[id] = "none" /\ StatusOf(before, id) = "done"

\* C3 witness: an image that was processed by an earlier run fails in the
\* current one.
C3_Witness ==
  \E id \in ImageIds :
    /\ outcome[id] = "failed"
    /\ StatusOf(before, id) = "done"
    /\ StatusOf(images, id) = "error"

FiniteLab(lab) == ~IsNaN(lab.L) /\ ~IsNaN(lab.a) /\ ~IsNaN(lab.b)

FiniteStats(stats) ==
  /\ FiniteLab(stats.mean)
  /\ FiniteLab(stats.std)
  /\ stats.std.L # 0 /\ stats.std.a # 0 /\ stats.std.b # 0

\* The Lab values applyLabShift(data, shift, ...) hands to labToRgb.
ShiftHanded(data, shift) ==
  IF IsNull(shift) THEN {}
  ELSE IF Component(shift, "L") = 0 /\ Component(shift, "a") = 0
          /\ Component(shift, "b") = 0 THEN {}
  ELSE {ShiftLab(data[i], Component(shift, "L"), Component(shift, "a"),
                 Component(shift, "b")) : i \in 1..Len(data)}

\* C7: in every pipeline run every Stats record is made of finite numbers
\* with a non-zero std (so that the ratio refStd / tgtStd is finite), and
\* every Lab value handed to labToRgb, by the recovery shift, the transfer
\* and the spot shift, is made of finite numbers.
C7_NoNaN ==
  /\ pc \in RecordSteps \cup {"loop"} => FiniteStats(referenceStats)
  /\ pc \in {"stats", "transfer", "spot", "encode"} =>
       /\ FiniteStats(recovery.stats)
       /\ \A lab \in ShiftHanded(history[1], recovery.shift) : FiniteLab(lab)
  /\ pc \in {"transfer", "spot", "encode"} => FiniteStats(targetStats)
  /\ pc \in {"spot", "encode"} =>
       \A i \in 1..Len(history[3]) :
         FiniteLab(TransferLab(history[3][i], referenceStats, targetStats, mode))
  /\ pc = "encode" =>
       \A lab \in ShiftHanded(history[4], spotShift) : FiniteLab(lab)

-----------------------------------------------------------------------------
(* Properties of single calls (SpecCore) *)

InvalidConfiguration(call) ==
  \/ call.strength \notin 0..StrScale
  \/ call.fn = "applyReinhardTransfer" /\ call.mode \notin Modes

\* C4: after applyReinhardTransfer or applyLabShift was called with a
\* strength outside [0,1] or with a mode that is none of full, luminance,
\* chromatic, the buffer is byte-identical to its input and the call has
\* reported an error.
C4_InvalidRejected ==
  (/\ coreDone
   /\ coreCall.fn \in {"applyReinhardTransfer", "applyLabShift"}
   /\ InvalidConfiguration(coreCall)) =>
    /\ coreData = coreCall.data
    /\ coreRaised

\* C5: computeLabStats called on a zero-pixel buffer raises an error and
\* returns no Stats record.
C5_EmptyInputRaises ==
  (coreDone /\ coreCall.fn = "computeLabStats" /\ Len(coreCall.data) = 0) =>
    /\ coreRaised
    /\ IsNull(coreRet)

\* C6: every Stats record computeLabStats returns, for every buffer and
\* every sampleStep, has std.L, std.a and std.b different from zero.
C6_StdNeverZero ==
  (coreDone /\ coreCall.fn = "computeLabStats") =>
    /\ coreRet.std.L # 0
    /\ coreRet.std.a # 0
    /\ coreRet.std.b # 0

\* C6 witness: the statistics of a non-empty buffer of one colour, whose
\* computed standard deviations are 0, come back with the floor.
C6_Witness ==
  /\ coreDone
  /\ coreCall.fn = "computeLabStats"
  /\ Len(coreCall.data) > 1
  /\ coreCall.sampleStep = 1
  /\ \A i \in 1..Len(coreCall.data) : coreCall.data[i] = coreCall.data[1]
  /\ coreRet.std = Lab(StdFloor, StdFloor, StdFloor)

\* C8: when referenceStats equals targetStats, applyReinhardTransfer leaves
\* every byte of the buffer unchanged, for every buffer, every mode and
\* every strength in [0,1].
C8_TransferIdempotent ==
  (/\ coreDone
   /\ coreCall.fn = "applyReinhardTransfer"
   /\ coreCall.referenceStats = coreCall.targetStats
   /\ coreCall.mode \in Modes
   /\ coreCall.strength \in 0..StrScale) =>
    coreData = coreCall.data

ZeroOrMissing(shift, name) == name \notin DOMAIN shift \/ shift[name] = 0

\* C9: applyLabShift with an absent shift, or with a shift whose components
\* are all 0 (a missing component counts as 0), leaves the buffer
\* byte-identical, for every buffer and every strength, and returns it.
C9_ZeroShiftNoOp ==
  (/\ coreDone
   /\ coreCall.fn = "applyLabShift"
   /\ \/ IsNull(coreCall.shift)
      \/ /\ ZeroOrMissing(coreCall.shift, "L")
         /\ ZeroOrMissing(coreCall.shift, "a")
         /\ ZeroOrMissing(coreCall.shift, "b")) =>
    /\ coreData = coreCall.data
    /\ coreRet = coreCall.data

\* C9 witness: a shift with only the component L, which is 0, was applied
\* to a non-empty buffer at a strength above 0.
C9_Witness ==
  /\ coreDone
  /\ coreCall.fn = "applyLabShift"
  /\ DOMAIN coreCall.shift = {"L"}
  /\ coreCall.shift.L = 0
  /\ coreCall.strength > 0
  /\ Len(coreCall.data) > 0
  /\ coreRet = coreCall.data

-----------------------------------------------------------------------------
(* Properties of the conversions (SpecConv) *)

\* C10: for every RGB triple of bytes, labToRgb(rgbToLab(r, g, b)) differs
\* from (r, g, b) by at most 1 in each channel.
C10_RoundTrip ==
  rtPc = "back" =>
    /\ Abs(rtBack.r - rtRgb.r) <= 1
    /\ Abs(rtBack.g - rtRgb.g) <= 1
    /\ Abs(rtBack.b - rtRgb.b) <= 1

\* C10 witness: black, whose pivot values take the linear branch of
\* labPivotInv, went through the round trip.
C10_Witness ==
  /\ rtPc = "back"
  /\ rtRgb = Rgb(0, 0, 0)
  /\ rtBack = Rgb(0, 0, 0)

-----------------------------------------------------------------------------
(* Properties of the confidence (SpecConf) *)

\* C11: in every reachable state the confidence score is an integer in
\* [0,100], whatever quality score and risk tier were supplied.
C11_ScoreIntegerInRange ==
  /\ confidence.score % ScoreScale = 0
  /\ 0 <= confidence.score
  /\ confidence.score <= 100 * ScoreScale

\* The base score as C12 states it.
C12_Base ==
  IF HasQualityScore(chartResult) THEN chartResult.qualityScore
  ELSE IF recoveryAvailable /\ recoveryEnabled THEN 55 * ScoreScale
  ELSE IF recoveryAvailable THEN 35 * ScoreScale
  ELSE 40 * ScoreScale

\* C12: the score is computed from the supplied quality score whenever there
\* is one, otherwise from 55 (recovery available and enabled), 35 (available
\* and disabled) or 40 (not available), less the penalty, clamped.
C12_BaseScore ==
  confidence.score =
    clampScore(C12_Base - riskPenalty(riskOf(chartEnvironment, environmentInfo)))

\* No quality score, recovery available and switched off, no risk: 35.
C12_Witness ==
  /\ ~HasQualityScore(chartResult)
  /\ recoveryAvailable
  /\ ~recoveryEnabled
  /\ riskOf(chartEnvironment, environmentInfo) = "undefined"
  /\ confidence.score = 35 * ScoreScale

\* The tier as C13 states it: the chart environment's when there is one,
\* otherwise the reference image's.
C13_Tier ==
  IF chartEnvironment # Null THEN chartEnvironment.risk
  ELSE IF environmentInfo # Null THEN environmentInfo.risk
  ELSE "none"

C13_Penalty ==
  IF C13_Tier = "high" THEN 15 * ScoreScale
  ELSE IF C13_Tier = "medium" THEN 7 * ScoreScale
  ELSE 0

\* C13: what is taken off the base score before clamping is 15 for the tier
\* high, 7 for medium, 0 for low or no tier, the tier being the chart
\* environment's if present and the reference image's otherwise; one penalty
\* at most is taken.
C13_RiskPenalty ==
  confidence.score =
    clampScore(baseScore(chartResult, recoveryAvailable, recoveryEnabled)
                 - C13_Penalty)

\* Chart environment medium, reference environment high, quality score 85:
\* the score is 78.
C13_Witness ==
  /\ chartEnvironment = [risk |-> "medium"]
  /\ environmentInfo = [risk |-> "high"]
  /\ chartResult = [qualityScore |-> 85 * ScoreScale]
  /\ confidence.score = 78 * ScoreScale

\* C14: the label is High for a score of at least 70, Mid for a score of at
\* least 50 and below 70, Low below 50, of the score of the same record.
C14_LabelOfScore ==
  /\ confidence.score >= 70 * ScoreScale => confidence.label = "High"
  /\ (confidence.score >= 50 * ScoreScale /\ confidence.score < 70 * ScoreScale)
       => confidence.label = "Mid"
  /\ confidence.score < 50 * ScoreScale => confidence.label = "Low"

\* A score of exactly 70, reached from 77 by the penalty of medium.
C14_Witness ==
  /\ chartResult = [qualityScore |-> 77 * ScoreScale]
  /\ riskOf(chartEnvironment, environmentInfo) = "medium"
  /\ confidence = [score |-> 70 * ScoreScale, label |-> "High"]

-----------------------------------------------------------------------------
(* Properties of the transfer and of the shift (SpecCore) *)

\* (v - targetMean) * (refStd / targetStd) + refMean of one channel.
C15_Channel(v, ref, tgt, c) ==
  MulDiv(v - tgt.mean[c], ref.std[c], tgt.std[c]) + ref.mean[c]

C15_Map(lab, ref, tgt) ==
  Lab(C15_Channel(lab.L, ref, tgt, "L"), C15_Channel(lab.a, ref, tgt, "a"),
      C15_Channel(lab.b, ref, tgt, "b"))

C15_Encode(px, rgb) == <<rgb.r, rgb.g, rgb.b, px[4]>>

C15_ToRgb(px, lab) == C15_Encode(px, labToRgb(lab.L, lab.a, lab.b))

\* The pixel after the mapping, the clamping and the re-encoding.
C15_Expected(px, ref, tgt) ==
  C15_ToRgb(px, clampLab(C15_Map(rgbToLab(px[1], px[2], px[3]), ref, tgt)))

\* C15: in full mode with strength 1 and finite stats, every pixel written by
\* applyReinhardTransfer is the re-encoding of the clamped Lab value
\* (v - targetMean) * (refStd / targetStd) + refMean of its Lab value v; and
\* with reference mean {50,2,-3}, std {10,5,5}, target mean {40,0,0}, std
\* {5,5,5} the Lab value {45,1,-1} is mapped to {60,3,-4}.
C15_FullTransfer ==
  /\ (/\ coreDone
      /\ coreCall.fn = "applyReinhardTransfer"
      /\ coreCall.mode = "full"
      /\ coreCall.strength = StrScale
      /\ FiniteStats(coreCall.referenceStats)
      /\ FiniteStats(coreCall.targetStats))
       => \A i \in 1..Len(coreCall.data) :
            coreData[i] = C15_Expected(coreCall.data[i], coreCall.referenceStats,
                                       coreCall.targetStats)
  /\ coreDone =>
       TransferLabOf(Lab(45 * LabScale, 1 * LabScale, -1 * LabScale),
                     WrittenReferenceStats.mean, WrittenReferenceStats.std,
                     WrittenTargetStats.mean, WrittenTargetStats.std, "full")
         = Lab(60 * LabScale, 3 * LabScale, -4 * LabScale)

\* A full transfer of strength 1 with the stats of the example that changed
\* the buffer.
C15_Witness ==
  /\ coreDone
  /\ coreCall.fn = "applyReinhardTransfer"
  /\ coreCall.mode = "full"
  /\ coreCall.strength = StrScale
  /\ coreCall.referenceStats = WrittenReferenceStats
  /\ coreCall.targetStats = WrittenTargetStats
  /\ coreData # coreCall.data

\* The Lab value of C16: L as it was in chromatic mode, a and b as they were
\* in luminance mode, the other channels recomputed.
C16_Map(lab, ref, tgt, selected) ==
  Lab(IF selected = "chromatic" THEN lab.L ELSE C15_Channel(lab.L, ref, tgt, "L"),
      IF selected = "luminance" THEN lab.a ELSE C15_Channel(lab.a, ref, tgt, "a"),
      IF selected = "luminance" THEN lab.b ELSE C15_Channel(lab.b, ref, tgt, "b"))

C16_Expected(px, ref, tgt, selected, amount) ==
  WritePixel(px, clampLab(C16_Map(rgbToLab(px[1], px[2], px[3]), ref, tgt, selected)),
             amount)

\* The channels the mode does not name reach labToRgb as rgbToLab gave them.
C16_Kept(lab, out, selected) ==
  /\ selected = "luminance" => (out.a = lab.a /\ out.b = lab.b)
  /\ selected = "chromatic" => out.L = lab.L

\* C16: in luminance mode applyReinhardTransfer recomputes L only and hands
\* a and b on as they were, in chromatic mode it recomputes a and b only and
\* hands L on as it was, in full mode it recomputes the three.
C16_ModeChannels ==
  (/\ coreDone
   /\ coreCall.fn = "applyReinhardTransfer"
   /\ coreCall.mode \in Modes
   /\ FiniteStats(coreCall.referenceStats)
   /\ FiniteStats(coreCall.targetStats))
    => \A i \in 1..Len(coreCall.data) :
         /\ coreData[i] = C16_Expected(coreCall.data[i], coreCall.referenceStats,
                                       coreCall.targetStats, coreCall.mode,
                                       coreCall.strength)
         /\ C16_Kept(rgbToLab(coreCall.data[i][1], coreCall.data[i][2],
                              coreCall.data[i][3]),
                     TransferLab(coreCall.data[i], coreCall.referenceStats,
                                 coreCall.targetStats, coreCall.mode),
                     coreCall.mode)

\* A luminance transfer whose result is not the one of the full transfer
\* nor the buffer as it was.
C16_Witness ==
  /\ coreDone
  /\ coreCall.fn = "applyReinhardTransfer"
  /\ coreCall.mode = "luminance"
  /\ coreCall.referenceStats = WrittenReferenceStats
  /\ coreCall.targetStats = WrittenTargetStats
  /\ coreData # coreCall.data
  /\ coreData # applyReinhardTransfer(coreCall.data, coreCall.referenceStats,
                                      coreCall.targetStats, coreCall.strength,
                                      "full")

-----------------------------------------------------------------------------
(* Properties of the recovery (Spec) *)

\* The shift of C17 for the measured mean.
C17_Shift(mean) ==
  Lab(IF recoveryAutoExposure THEN Sub(recoveryTarget.L, mean.L) ELSE 0,
      IF recoveryAutoWB THEN Sub(recoveryTarget.a, mean.a) ELSE 0,
      IF recoveryAutoWB THEN Sub(recoveryTarget.b, mean.b) ELSE 0)

\* C17: the shift of a recovery has L = target.L - mean.L when auto-exposure
\* is on and 0 otherwise, a and b = target - mean when auto-WB is on and 0
\* otherwise; with auto-exposure on, auto-WB off, mean {60,5,-2} and target
\* {50,0,0} the shift is {-10,0,0}.
C17_IndependentToggles ==
  /\ (recovery # Null /\ ~IsNull(recovery.shift))
       => recovery.shift = C17_Shift(recovery.stats.mean)
  /\ (/\ recovery # Null
      /\ recoveryAutoExposure
      /\ ~recoveryAutoWB
      /\ recoveryTarget = Lab(50 * LabScale, 0, 0))
       => computeRecoveryShift(
            Stats(Lab(60 * LabScale, 5 * LabScale, -2 * LabScale),
                  Lab(StdScale, StdScale, StdScale)))
            = Lab(-10 * LabScale, 0, 0)

\* A recovery with auto-exposure on and auto-WB off of an image whose mean
\* is off the target in the three channels.
C17_Witness ==
  /\ recovery # Null
  /\ ~IsNull(recovery.shift)
  /\ recoveryAutoExposure
  /\ ~recoveryAutoWB
  /\ recovery.stats.mean.a # recoveryTarget.a
  /\ recovery.stats.mean.b # recoveryTarget.b
  /\ recovery.shift.L # 0
  /\ recovery.shift.a = 0
  /\ recovery.shift.b = 0

-----------------------------------------------------------------------------
(* Properties of the write-back (SpecCore) *)

\* Whether the call ran its loop: a transfer always does, a shift does
\* unless the shift is missing or zero.
LoopRan(call) ==
  \/ call.fn = "applyReinhardTransfer"
  \/ /\ call.fn = "applyLabShift"
     /\ ~IsNull(call.shift)
     /\ \E c \in {"L", "a", "b"} : ~ZeroOrMissing(call.shift, c)

\* The RGB value after the conversion back from Lab, for one pixel.
TransformedOf(call, px) ==
  IF call.fn = "applyReinhardTransfer"
  THEN labToRgb(TransferLab(px, call.referenceStats, call.targetStats, call.mode).L,
                TransferLab(px, call.referenceStats, call.targetStats, call.mode).a,
                TransferLab(px, call.referenceStats, call.targetStats, call.mode).b)
  ELSE labToRgb(ShiftLab(px, Component(call.shift, "L"), Component(call.shift, "a"),
                         Component(call.shift, "b")).L,
                ShiftLab(px, Component(call.shift, "L"), Component(call.shift, "a"),
                         Component(call.shift, "b")).a,
                ShiftLab(px, Component(call.shift, "L"), Component(call.shift, "a"),
                         Component(call.shift, "b")).b)

\* round(original + (transformed - original) * strength)
C18_Round(original, transformed, amount) ==
  IF IsNaN(transformed) THEN NaN
  ELSE RDiv(original * StrScale + (transformed - original) * amount, StrScale)

\* The written value is read back from the byte array it was stored in.
C18_Channel(written, original, transformed, amount) ==
  /\ written = Uint8Clamped(C18_Round(original, transformed, amount))
  /\ amount = 0 => written = original
  /\ amount = StrScale => written = Uint8Clamped(transformed)
  /\ \/ IsNaN(transformed)
     \/ (original <= written /\ written <= transformed)
     \/ (transformed <= written /\ written <= original)

C18_Pixel(written, px, rgb, amount) ==
  /\ C18_Channel(written[1], px[1], rgb.r, amount)
  /\ C18_Channel(written[2], px[2], rgb.g, amount)
  /\ C18_Channel(written[3], px[3], rgb.b, amount)

\* C18: every R, G, B value written by applyReinhardTransfer and
\* applyLabShift is round(original + (transformed - original) * strength);
\* with strength 0 it is the original, with strength 1 the transformed
\* value, and for a strength in [0,1] it lies between the two.
C18_BlendWritten ==
  (/\ coreDone
   /\ coreCall.fn \in {"applyReinhardTransfer", "applyLabShift"}
   /\ LoopRan(coreCall)
   /\ coreCall.strength \in 0..StrScale)
    => \A i \in 1..Len(coreCall.data) :
         C18_Pixel(coreData[i], coreCall.data[i],
                   TransformedOf(coreCall, coreCall.data[i]), coreCall.strength)

-----------------------------------------------------------------------------
(* Properties of the alpha channel (Spec, SpecCore) *)

\* The alpha bytes of a buffer.
AlphaOf(data) == [i \in 1..Len(data) |-> data[i][4]]

\* The buffer of the current iteration after each of its steps has the alpha
\* bytes of the file, and the step computeLabStats left it as it was.
C19_Pipeline ==
  /\ \A k \in 1..Len(history) : AlphaOf(history[k]) = AlphaOf(files[record])
  /\ Len(history) >= 3 => history[3] = history[2]

\* One call of a core function leaves the alpha bytes, and computeLabStats
\* the whole buffer, as they were.
C19_Core ==
  coreDone =>
    /\ AlphaOf(coreData) = AlphaOf(coreCall.data)
    /\ coreCall.fn = "computeLabStats" => coreData = coreCall.data

\* C19: applyReinhardTransfer, applyLabShift and the whole pipeline of an
\* image leave the alpha byte of every pixel unchanged, and computeLabStats
\* changes no byte of the buffer.
C19_AlphaUntouched == C19_Pipeline /\ C19_Core

\* An image with a translucent pixel went through recovery, transfer and
\* spot shift, each of which changed its colours.
C19_Witness ==
  /\ pc = "encode"
  /\ \E i \in 1..Len(imageData) : imageData[i][4] # 255
  /\ history[2] # history[1]
  /\ history[4] # history[3]
  /\ history[5] # history[4]

-----------------------------------------------------------------------------
(* Properties of the statistics (SpecCore) *)

\* Every pixel of the buffer has the colour of the first.
Uniform(data) ==
  /\ Len(data) > 0
  /\ \A i \in 1..Len(data) : \A c \in 1..3 : data[i][c] = data[1][c]

\* C20: for a buffer of one colour computeLabStats returns, for every
\* sampleStep, the Lab value of the colour as the mean and 1e-6 as each of
\* the three components of std.
C20_UniformStats ==
  (coreDone /\ coreCall.fn = "computeLabStats" /\ Uniform(coreCall.data))
    => /\ coreRet.mean = rgbToLab(coreCall.data[1][1], coreCall.data[1][2],
                                  coreCall.data[1][3])
       /\ coreRet.std = Lab(StdFloor, StdFloor, StdFloor)

-----------------------------------------------------------------------------
(* The reference statistics of a batch (Spec) *)

\* The buffer of the reference image as the statistics must see it: after
\* the recovery shift when recovery is available and enabled.
C24_ReferenceBuffer(data) ==
  IF recoveryAvailable /\ recoveryEnabled
  THEN applyLabShift(data, computeRecoveryShift(computeLabStats(data, 2)),
                     recoveryStrength)
  ELSE data

\* While the loop over the targets runs, the reference statistics are those
\* of the reference image after recovery.
C24_Value ==
  pc \in RecordSteps \cup {"loop"} =>
    referenceStats =
      computeLabStats(C24_ReferenceBuffer(files[referenceOf(before, referenceId).id]), 2)

\* The reference statistics are only written by the step that follows the
\* reading of the reference image, when no target was touched yet.
C24_WrittenOnce ==
  referenceStats' # referenceStats =>
    /\ pc = "reference" /\ pc' = "loop"
    /\ images = before
    /\ \A id \in ImageIds : outcome[id] = "none"

\* C24: in reference-image mode the reference statistics are computed once
\* per batch, from the reference image's buffer after the recovery shift was
\* applied to it (when recovery is enabled), before any target image is
\* processed, and they stay the same for every target image of the batch.
C24_ReferenceStatsOnce == [](C24_Value) /\ [][C24_WrittenOnce]_vars

\* C24 witness: the second target of a batch is transferred with reference
\* statistics that the recovery shift changed.
C24_Witness ==
  /\ pc = "transfer"
  /\ record = 2
  /\ outcome[1] = "completed"
  /\ recoveryAvailable /\ recoveryEnabled
  /\ referenceStats # computeLabStats(files[referenceOf(before, referenceId).id], 2)

-----------------------------------------------------------------------------
(* Outputs of an earlier run on a record that failed later (Spec) *)

\* C29: when an image that an earlier run left 'done' fails in the current
\* run, its status is 'error' while processedBlob, processedUrl and
\* processedName are those of the earlier run, so that handleDownloadAll
\* still makes an entry with that blob and name for the record.
C29_StaleOutputKept ==
  \A id \in ImageIds :
    (outcome[id] = "failed" /\ StatusOf(before, id) = "done") =>
      /\ StatusOf(images, id) = "error"
      /\ ~IsNull(RecordOf(images, id).processedBlob)
      /\ RecordOf(images, id).processedBlob = RecordOf(before, id).processedBlob
      /\ RecordOf(images, id).processedUrl = RecordOf(before, id).processedUrl
      /\ RecordOf(images, id).processedName = RecordOf(before, id).processedName
      /\ \E k \in 1..Len(handleDownloadAll(images)) :
            handleDownloadAll(images)[k] =
              [name |-> RecordOf(before, id).processedName,
               blob |-> RecordOf(before, id).processedBlob]

\* C29 witness: the second run is over, and in it an image failed that the
\* first run had processed.
C29_Witness ==
  /\ pc = "idle"
  /\ runs = 2
  /\ \E id \in ImageIds :
       /\ outcome[id] = "failed"
       /\ StatusOf(before, id) = "done"
       /\ RecordOf(before, id).processedUrl = createObjectURL(id, 1)

-----------------------------------------------------------------------------
(* handleProcess with nothing to process (Spec) *)

\* What handleProcess may touch besides the error message.
C28_Rest ==
  <<images, processing, pc, queue, record, referenceStats, imageData,
    recovery, targetStats, lastError, outcome, before, history, configVars,
    confVars>>

\* A step taken when the list of images is empty changes nothing; one taken
\* in colorchecker mode without chart swatches changes the error message
\* only.
C28_Step ==
  /\ images = <<>> => (apiError' = apiError /\ UNCHANGED C28_Rest)
  /\ (referenceMode = "colorchecker" /\ ~hasCalibration) => UNCHANGED C28_Rest

\* In colorchecker mode without chart swatches no run is in progress, the
\* processing flag is down and every record is as it was created.
C28_State ==
  (referenceMode = "colorchecker" /\ ~hasCalibration) =>
    /\ ~processing
    /\ pc = "idle"
    /\ \A i \in 1..Len(images) : images[i] = createRecord(images[i].id)
    /\ apiError \in {NoError, "ColorChecker diagnosis required"}

\* C28: in colorchecker mode with no chart swatches handleProcess processes
\* nothing: no image record changes, the processing flag is never raised and
\* only the API error message is set; with an empty image list it changes
\* nothing at all.
C28_NothingProcessed == [](C28_State) /\ [][C28_Step]_vars

\* C28 witness: handleProcess was called twice in colorchecker mode on a
\* list of images and left its message.
C28_Witness ==
  /\ referenceMode = "colorchecker"
  /\ ~hasCalibration
  /\ images # <<>>
  /\ runs = 2
  /\ apiError = "ColorChecker diagnosis required"

\* The call on the empty list was made as well.
C28_EmptyWitness == images = <<>> /\ runs = 2

-----------------------------------------------------------------------------
(* The processing flag (SpecLive) *)

\* C26: every run of handleProcess that raised the processing flag lowers it
\* again, whether all images succeed, some or all fail, or the reference
\* image cannot be read; no run that is over leaves the flag raised.
C26_ProcessingLowered ==
  /\ [](pc = "idle" => ~processing)
  /\ (processing ~> ~processing)

\* C26 witness: a run is over in which an image failed and the flag is down,
\* after a run that ended before the loop.
C26_Witness ==
  /\ pc = "idle"
  /\ runs = 2
  /\ ~processing
  /\ \E id \in ImageIds : outcome[id] = "failed"
  /\ apiError = "some images failed"

-----------------------------------------------------------------------------
(* Isolation of the images of a batch (Spec) *)

\* The buffer runLocalCorrection encodes, from what applyRecovery returned
\* for the image's own buffer.
C22_Corrected(rec) ==
  applyLabShift(applyReinhardTransfer(rec.data, referenceStats,
                                      computeLabStats(rec.data, 2), strength, mode),
                spotShift, strength)

\* The outputs of an image as a function of its own buffer, the reference
\* statistics and the configuration.
C22_Outputs(data) ==
  [processedBlob |-> canvasToBlob(C22_Corrected(applyRecovery(data))),
   recoveryShift |-> applyRecovery(data).shift]

\* Every image the current run completed holds the outputs of its own
\* buffer, whatever else is in the batch and wherever it stands in it.
C22_OwnInput ==
  \A id \in ImageIds :
    outcome[id] = "completed" =>
      /\ StatusOf(images, id) = "done"
      /\ RecordOf(images, id).processedBlob = C22_Outputs(files[id]).processedBlob
      /\ RecordOf(images, id).recoveryShift = C22_Outputs(files[id]).recoveryShift

\* A step changes no record but that of the image being processed, and
\* never the decoded files.
C22_OwnRecord ==
  /\ files' = files
  /\ \A id \in ImageIds :
       RecordOf(images', id) # RecordOf(images, id) => (pc' # "idle" /\ id = record')

C22_BothWitness ==
  /\ pc = "idle"
  /\ images # <<>>
  /\ images[1].id = 1
  /\ \A id \in ImageIds : outcome[id] = "completed"
  /\ BlobOf(images, 1) # BlobOf(images, 2)

-----------------------------------------------------------------------------
(* The gamut clamp (SpecCore) *)

\* The Lab value a transform hands to labToRgb for one pixel.
C23_Handed(call, px) ==
  IF call.fn = "applyReinhardTransfer"
  THEN TransferLab(px, call.referenceStats, call.targetStats, call.mode)
  ELSE ShiftLab(px, Component(call.shift, "L"), Component(call.shift, "a"),
                Component(call.shift, "b"))

C23_LabInRange(lab) ==
  /\ 0 <= lab.L /\ lab.L <= 100 * LabScale
  /\ -128 * LabScale <= lab.a /\ lab.a <= 127 * LabScale
  /\ -128 * LabScale <= lab.b /\ lab.b <= 127 * LabScale

C23_RgbInRange(rgb) ==
  /\ rgb.r \in 0..255
  /\ rgb.g \in 0..255
  /\ rgb.b \in 0..255

\* C23: every Lab value that applyReinhardTransfer and applyLabShift hand
\* to labToRgb has L in [0,100] and a, b in [-128,127]; every channel that
\* labToRgb returns for it is an integer in [0,255]; and every byte written
\* to the buffer for a strength in [0,1] is an integer in [0,255].
C23_GamutClamp ==
  (/\ coreDone
   /\ coreCall.fn \in {"applyReinhardTransfer", "applyLabShift"}
   /\ LoopRan(coreCall))
    => \A i \in 1..Len(coreCall.data) :
         /\ C23_LabInRange(C23_Handed(coreCall, coreCall.data[i]))
         /\ C23_RgbInRange(TransformedOf(coreCall, coreCall.data[i]))
         /\ coreCall.strength \in 0..StrScale =>
              \A c \in 1..3 : coreData[i][c] \in 0..255

-----------------------------------------------------------------------------
(* The mode switches (SpecUi) *)

\* With the effects settled the two switches are never both on; in
\* reference-image mode both are off; in colorchecker mode one of them is on.
C25_Settled ==
  ~modePending =>
    /\ ~(serverMode /\ asyncMode)
    /\ referenceMode = "reference-image" => (~serverMode /\ ~asyncMode)
    /\ referenceMode = "colorchecker" => (serverMode \/ asyncMode)

\* C25: once the mode effects have settled after any sequence of toggles,
\* serverMode and asyncMode are never both true, in reference-image mode
\* both are false, in colorchecker mode exactly one is true; and the effects
\* always settle.
C25_ModeCoupling == [](C25_Settled) /\ (modePending ~> ~modePending)

\* C25 witness: asyncMode was switched on in colorchecker mode and the
\* effects switched serverMode off.
C25_Witness ==
  /\ ~modePending
  /\ referenceMode = "colorchecker"
  /\ asyncMode /\ ~serverMode

-----------------------------------------------------------------------------
(* The reference image (SpecUi) *)

C30_Candidates == referenceCandidatesOf(images, filterText)

\* C30: with the effects settled after any sequence of add, remove, clear,
\* role and filter operations, referenceId is null exactly when there is no
\* reference candidate, and otherwise it is the id of a candidate (an image
\* with role 'reference' that matches the filter, or any image when there
\* is none); it never names an image that was removed.
C30_ReferenceAmongCandidates ==
  ~refPending =>
    /\ referenceId = 0 <=> C30_Candidates = <<>>
    /\ referenceId # 0 =>
         /\ \E i \in 1..Len(C30_Candidates) : C30_Candidates[i].id = referenceId
         /\ \E i \in 1..Len(images) : images[i].id = referenceId

\* C30 witness: the first image was removed, and the reference is the one
\* image with role 'reference' that matches the filter, not the first of
\* the list.
C30_Witness ==
  /\ ~refPending
  /\ nextId > Len(images) + 1
  /\ images # <<>>
  /\ trim(filterText) # <<>>
  /\ referenceImages(images, filterText) # <<>>
  /\ referenceId = referenceImages(images, filterText)[1].id

-----------------------------------------------------------------------------
(* Polling of asynchronous jobs (SpecPoll) *)

\* pollJob makes at most maxAttempts status requests for a job, and when the
\* iteration of an image is over its status is 'done' or 'error'.
C27_Bounded ==
  /\ requests <= maxAttempts
  /\ attempt <= maxAttempts
  /\ \A id \in ImageIds :
       /\ outcome[id] = "downloaded" => StatusOf(images, id) = "done"
       /\ outcome[id] \in {"job error", "result not ok", "thrown", "exhausted"} =>
            StatusOf(images, id) = "error"
  /\ (pc = "idle" /\ runs > 0) =>
       \A id \in ImageIds : StatusOf(images, id) \in {"done", "error"}

\* C27: job polling terminates.  pollJob issues at most 120 status requests
\* for a job and the polled image ends with status 'done' or 'error' (the
\* job reports an error, the result request fails, a request throws, or the
\* attempts are used up); it does not stay 'queued' or 'processing' once
\* polling has ended, and polling does end.
C27_PollingTerminates ==
  /\ [](C27_Bounded)
  /\ (pc \in AsyncSteps ~> pc \in {"jobs", "idle"})

\* C27 witness: all status requests of a job were made without an answer
\* that ends the polling, and the image got status 'error'.
C27_Witness ==
  /\ pc = "idle"
  /\ \E id \in ImageIds :
       /\ outcome[id] = "exhausted"
       /\ StatusOf(images, id) = "error"
  /\ \E id \in ImageIds : outcome[id] = "downloaded"


-----------------------------------------------------------------------------
(* Properties of the spot shift (SpecSpot) *)

\* The pixels of the image within 6 columns and 6 rows of (x, y).
C21_Neighbourhood(image, x, y) ==
  { i \in 1..Len(image.data) :
      /\ Abs(((i - 1) % image.width) - x) <= 6
      /\ Abs(((i - 1) \div image.width) - y) <= 6 }

\* The average Lab of the pixels idx of the image.
C21_Average(image, idx) ==
  LET lab == [i \in idx |-> rgbToLab(image.data[i][1], image.data[i][2],
                                      image.data[i][3])]
      n   == Cardinality(idx)
  IN  [L |-> Mean(SumOver([i \in idx |-> lab[i].L], idx), n),
       a |-> Mean(SumOver([i \in idx |-> lab[i].a], idx), n),
       b |-> Mean(SumOver([i \in idx |-> lab[i].b], idx), n)]

\* The palette entry named by paletteTarget, else the first entry.
C21_Target ==
  IF \E i \in 1..Len(palette) : palette[i].name = paletteTarget
  THEN palette[CHOOSE i \in 1..Len(palette) : palette[i].name = paletteTarget]
  ELSE palette[1]

C21_HasSource ==
  IF sampleSource = "reference"
  THEN \E i \in 1..Len(images) : images[i].id = referenceId
  ELSE backgroundSample # Null

\* The image the sample is taken from.
C21_Source ==
  IF sampleSource = "reference"
  THEN [width |-> Len(files[referenceId]), height |-> 1,
        data |-> files[referenceId]]
  ELSE backgroundSample

C21_Diff(target, measured) ==
  [L |-> Sub(target.L, measured.L), a |-> Sub(target.a, measured.a),
   b |-> Sub(target.b, measured.b)]

C21_UsesPick == samplePickMode = "picker" /\ samplePickLab # Null

C21_Step ==
  \* a pick that is taken is the average of a clipped neighbourhood
  /\ (samplePickLab' # samplePickLab \/ picked' # picked) =>
       /\ samplePreviewData # Null
       /\ samplePickLab' =
            C21_Average(samplePreviewData,
                        C21_Neighbourhood(samplePreviewData, picked'[1],
                                          picked'[2]))
  \* without a palette or without a source nothing is stored or started
  /\ (measuring = Null /\ (palette = <<>> \/ ~C21_HasSource)) =>
       /\ spotShift' = spotShift
       /\ measuring' = Null
  \* a measurement that starts is of the target and of the source of the click
  /\ (measuring = Null /\ measuring' # Null) =>
       /\ ~C21_UsesPick
       /\ measuring' = [target |-> C21_Target, source |-> C21_Source]
  \* a shift that is stored is target - measured
  /\ spotShift' # spotShift =>
       IF measuring = Null
       THEN /\ C21_UsesPick
            /\ spotShift' = C21_Diff(C21_Target.lab, samplePickLab)
       ELSE spotShift' =
              C21_Diff(measuring.target.lab,
                       computeLabStats(measuring.source.data, 1).mean)

\* C21: the spot shift that is stored is target.lab - measured, component by
\* component, where measured is the pick (the average Lab of the pixels within
\* 6 columns and rows of the picked point that lie in the image) if the pick
\* mode is 'picker' and a pick exists, and else the mean of
\* computeLabStats(image, 1) over the whole source image; with no palette or
\* no sample source no shift is stored and the spot shift stays as it was.
C21_SpotShift == [][C21_Step]_vars

\* A shift was stored from a pick that differs from the mean of the image.
C21_Witness ==
  /\ C21_UsesPick
  /\ samplePreviewData # Null
  /\ samplePickLab # computeLabStats(samplePreviewData.data, 1).mean
  /\ palette # <<>>
  /\ spotShift = C21_Diff(C21_Target.lab, samplePickLab)
  /\ spotShift # SampleShift

\* A shift was stored from the mean of the whole image.
C21_AverageWitness ==
  /\ ~C21_UsesPick
  /\ palette # <<>>
  /\ C21_HasSource
  /\ spotShift = C21_Diff(C21_Target.lab, computeLabStats(C21_Source.data, 1).mean)

\* A click was refused and the spot shift is the one of before.
C21_RefusedWitness ==
  /\ apiError = "palette and sample needed"
  /\ ~C21_HasSource
  /\ spotShift = SampleShift

=============================================================================
